---- MODULE Spec2Model ----
(***************************************************************************)
(* A model of the reconciliation engine of asset-merger-engine:            *)
(*   lib/validator.py    ValidationResult, MergerValidator                 *)
(*   lib/differ.py       DifferAgent (Normalizer, Comparator, DIF writer)  *)
(*   lib/differ_utils.py DifFileParser                                     *)
(*   lib/sorter.py       SortingStrategy                                   *)
(* Every component has its own specification (SpecResult, SpecValidator,   *)
(* SpecValues, SpecDiffer, SpecAsset, SpecCodec, SpecKeys, SpecSorter,     *)
(* SpecDoc, SpecCache, SpecCalls, SpecWritten, SpecFields, SpecEntries,    *)
(* SpecExport, SpecReport) over its own variables; the variables of the    *)
(* other components stay idle.                                             *)
(* Python strings are modelled as sequences of one-character strings, so   *)
(* that strip, split, lower and the digit runs are computed, not assumed.  *)
(***************************************************************************)
EXTENDS Integers, Sequences, FiniteSets, TLC

VARIABLES
    result,              \* validator.py: one ValidationResult and the calls made on it
    prev_status,         \* its status before the last call
    last_call,           \* the last call made on it
    n_calls,             \* the number of calls made on it
    validation_history,  \* validator.py: MergerValidator.validation_history
    returned,            \* the result the last validation method returned
    case_sensitive,      \* differ.py: DifferAgent.case_sensitive
    normalize_whitespace,\* differ.py: DifferAgent.normalize_whitespace
    zabbix_val,          \* differ.py: the arguments of a compare_values call
    topdesk_val,
    values_equal,        \* what the call returned (None before the call)
    excluded_fields,     \* differ.py: DifferAgent.excluded_fields
    zabbix_data,         \* differ.py: the maps given to the comparison runs
    topdesk_data,
    stats,               \* differ.py: DifferAgent.stats
    all_differences,     \* the map the last run built, as its items in insertion order
    generated_files,     \* the asset ids of the files the last process_comparison wrote
    dif_files,           \* output_dir: asset id -> the document written for it
    last_run,            \* the entry point of the last run
    n_runs,              \* the number of runs made on the agent
    dif_request,         \* differ.py: the arguments of a generate_dif_file call
    dif_text,            \* the lines of the file the call wrote
    parsed_data,         \* differ_utils.py: what parse_dif_file returned for the file
    codec_pc,            \* "init", "written" (file written), "parsed" (file parsed)
    sort_a,              \* sorter.py: two identifiers
    sort_b,
    key_a,               \* their natural_sort_key (None before the call)
    key_b,
    key_order,           \* the outcome of comparing the keys (None before)
    assets,              \* sorter.py: the list a Sorter operation is given; its records
                         \* are the caller's objects, changed in place by sort_assets
    sort_input,          \* the list as the caller built it, before any operation
    reverse,             \* the reverse argument of sort_assets
    sort_op,             \* the Sorter operation that was called ("none" before)
    sort_result,         \* what it returned (a list) or raised (None before)
    order_valid,         \* what validate_sort_order returned or raised (None before)
    document,            \* validator.py: the content given to a validation method
    validated_by,        \* the validation method that was called ("none" before)
    calls,               \* differ.py: the process_comparison calls that callers make
                         \* on the agent at the same time, each with its position
                         \* and its local variables
    csv_rows,            \* differ_utils.py: the rows export_to_csv wrote (None before)
    report               \* validator.py: what generate_validation_report returned
                         \* (None before)

resVars == <<result, prev_status, last_call, n_calls>>
valVars == <<validation_history, returned>>
cfgVars == <<case_sensitive, normalize_whitespace>>
cmpVars == <<zabbix_val, topdesk_val, values_equal>>
inVars == <<excluded_fields, zabbix_data, topdesk_data>>
runVars == <<stats, all_differences, generated_files, dif_files, last_run, n_runs>>

codecVars == <<dif_request, dif_text, parsed_data, codec_pc>>
sortVars == <<sort_a, sort_b, key_a, key_b, key_order>>

listVars == <<assets, sort_input, reverse, sort_op, sort_result, order_valid>>
docVars == <<document, validated_by>>
callVars == <<calls>>
csvVars == <<csv_rows>>
reportVars == <<report>>

vars == <<resVars, valVars, cfgVars, cmpVars, inVars, runVars, codecVars, sortVars,
          listVars, docVars, callVars, csvVars,
          reportVars>>

\* Python values: None, a string (a sequence of characters), a number (in
\* thousandths, see Scale), a boolean, a list
None == [t |-> "none"]
Str(s) == [t |-> "str", s |-> s]
Num(n) == [t |-> "num", n |-> n]
Bool(b) == [t |-> "bool", b |-> b]
List(items) == [t |-> "list", items |-> items]

\* dict.get(key) of a record modelled as a function of its keys
Get(d, k) == IF k \in DOMAIN d THEN d[k] ELSE None

\* a message that is None or empty
NoMessage == ""

\* ------------------------------------------------------------------------
\* Strings as sequences of characters

\* str.strip() / str.split(): the whitespace characters of the model
IsSpace(c) == c \in {" ", "\t", "\n"}

RECURSIVE LStrip(_)
\* str.lstrip()
LStrip(s) == IF s # <<>> /\ IsSpace(Head(s)) THEN LStrip(Tail(s)) ELSE s

RECURSIVE RStrip(_)
\* str.rstrip()
RStrip(s) ==
    IF s # <<>> /\ IsSpace(s[Len(s)]) THEN RStrip(SubSeq(s, 1, Len(s) - 1)) ELSE s

\* str.strip()
Strip(s) == RStrip(LStrip(s))

RECURSIVE Split(_)
\* str.split(): the words of s between runs of whitespace
Split(s) ==
    LET t == LStrip(s)
        word_len == IF \E i \in DOMAIN t : IsSpace(t[i])
                    THEN (CHOOSE i \in DOMAIN t :
                            IsSpace(t[i]) /\ \A j \in 1..(i - 1) : ~IsSpace(t[j])) - 1
                    ELSE Len(t)
    IN IF t = <<>> THEN <<>>
       ELSE <<SubSeq(t, 1, word_len)>> \o Split(SubSeq(t, word_len + 1, Len(t)))

RECURSIVE Join(_)
\* ' '.join(words)
Join(words) ==
    IF words = <<>> THEN <<>>
    ELSE IF Len(words) = 1 THEN words[1]
    ELSE words[1] \o <<" ">> \o Join(Tail(words))

\* the upper-case letters of the model and their lower-case letters
UpperToLower ==
    [c \in {"A", "B", "E", "G", "M", "N", "O", "R", "S", "T", "V", "Z"} |->
        CASE c = "A" -> "a" [] c = "B" -> "b" [] c = "E" -> "e" [] c = "G" -> "g"
          [] c = "M" -> "m" [] c = "N" -> "n" [] c = "O" -> "o" [] c = "R" -> "r"
          [] c = "S" -> "s" [] c = "T" -> "t" [] c = "V" -> "v" [] c = "Z" -> "z"]

\* str.lower()
Lower(s) == [i \in DOMAIN s |-> IF s[i] \in DOMAIN UpperToLower THEN UpperToLower[s[i]] ELSE s[i]]

\* the decimal digits and their values
DigitValue ==
    [c \in {"0", "1", "2", "3", "4", "5", "6", "7", "8", "9"} |->
        CASE c = "0" -> 0 [] c = "1" -> 1 [] c = "2" -> 2 [] c = "3" -> 3 [] c = "4" -> 4
          [] c = "5" -> 5 [] c = "6" -> 6 [] c = "7" -> 7 [] c = "8" -> 8 [] c = "9" -> 9]

\* str.isdigit() of one character
IsDigit(c) == c \in DOMAIN DigitValue

RECURSIVE ParseInt(_)
\* int(s) of a run of digits (0 for the empty run)
ParseInt(s) ==
    IF s = <<>> THEN 0
    ELSE 10 * ParseInt(SubSeq(s, 1, Len(s) - 1)) + DigitValue[s[Len(s)]]

\* ------------------------------------------------------------------------
\* The idle state of a component a specification does not use

ResIdle ==
    /\ result = None
    /\ prev_status = None
    /\ last_call = None
    /\ n_calls = 0

ValIdle ==
    /\ validation_history = <<>>
    /\ returned = None

CodecIdle ==
    /\ dif_request = None
    /\ dif_text = <<>>
    /\ parsed_data = None
    /\ codec_pc = "idle"

SorterIdle ==
    /\ sort_a = None
    /\ sort_b = None
    /\ key_a = None
    /\ key_b = None
    /\ key_order = None

ListIdle ==
    /\ assets = <<>>
    /\ sort_input = <<>>
    /\ reverse = FALSE
    /\ sort_op = "none"
    /\ sort_result = None
    /\ order_valid = None

DocIdle ==
    /\ document = None
    /\ validated_by = "none"

\* no caller is inside process_comparison, nothing was exported and nothing
\* reported
CallsIdle ==
    /\ calls = <<>>
    /\ csv_rows = None
    /\ report = None

\* DifferAgent.__init__: self.stats
ZeroStats ==
    [total_assets_processed |-> 0, matched_assets |-> 0, zabbix_only |-> 0,
     topdesk_only |-> 0, assets_with_differences |-> 0, total_differences |-> 0]

DifferIdle ==
    /\ excluded_fields = {}
    /\ zabbix_data = <<>>
    /\ topdesk_data = <<>>
    /\ stats = ZeroStats
    /\ all_differences = <<>>
    /\ generated_files = <<>>
    /\ dif_files = <<>>
    /\ last_run = "none"
    /\ n_runs = 0

\* ------------------------------------------------------------------------
\* Normalizer (differ.py)

\* numbers are counted in thousandths: 8.01 is 8010
Scale == 1000

\* the default numeric_tolerance, 0.01, in thousandths
Tolerance == 10

\* the first three digits of a fraction, in thousandths
FracValue(f) ==
    LET d(i) == IF i <= Len(f) THEN DigitValue[f[i]] ELSE 0
    IN 100 * d(1) + 10 * d(2) + d(3)

NotANumber == [ok |-> TRUE, nan |-> TRUE]
Finite(n) == [ok |-> TRUE, nan |-> FALSE, n |-> n]
ValueError == [ok |-> FALSE]

\* the value of the digits u with the decimal point at dot (Len(u) + 1 without one)
Magnitude(u, dot) ==
    Scale * ParseInt(SubSeq(u, 1, dot - 1)) + FracValue(SubSeq(u, dot + 1, Len(u)))

\* float() of the numeral u without its sign; dots are the positions of its points
FloatOfUnsigned(u, negative, dots) ==
    IF Lower(u) = <<"n", "a", "n">> THEN NotANumber
    ELSE IF /\ Cardinality(dots) <= 1
            /\ \A i \in DOMAIN u : IsDigit(u[i]) \/ u[i] = "."
            /\ \E i \in DOMAIN u : IsDigit(u[i])
         THEN Finite((IF negative THEN -1 ELSE 1)
                     * Magnitude(u, IF dots = {} THEN Len(u) + 1
                                    ELSE CHOOSE i \in dots : TRUE))
    ELSE ValueError

\* the positions of the decimal points of u
Dots(u) == {i \in DOMAIN u : u[i] = "."}

\* float() of the numeral t with its sign
FloatOfSigned(t) ==
    IF t # <<>> /\ t[1] \in {"-", "+"}
    THEN FloatOfUnsigned(Tail(t), t[1] = "-", Dots(Tail(t)))
    ELSE FloatOfUnsigned(t, FALSE, Dots(t))

\* float(s) of a string: surrounding whitespace, an optional sign, digits with an
\* optional fraction, or nan (exponents, inf and underscores are left out: no input
\* of the model has them)
FloatOfString(s) == FloatOfSigned(Strip(s))

\* float(value) of a value that is not None
Float(v) ==
    CASE v.t = "num" -> Finite(v.n)
      [] v.t = "bool" -> Finite(IF v.b THEN Scale ELSE 0)
      [] v.t = "str" -> FloatOfString(v.s)

\* DifferAgent.normalize_value(value); the string "null" stands for None
normalize_value(value) ==
    IF value = None THEN Str(<<"n", "u", "l", "l">>)
    ELSE IF value.t = "str"
    THEN LET v1 == IF normalize_whitespace THEN Join(Split(value.s)) ELSE value.s
             v2 == IF ~case_sensitive THEN Lower(v1) ELSE v1
         IN Str(v2)
    ELSE value

Abs(n) == IF n < 0 THEN 0 - n ELSE n

\* compare_values without the numeric comparison
compare_values_strings_only(zabbix, topdesk) ==
    IF zabbix = None /\ topdesk = None THEN TRUE
    ELSE IF zabbix = None \/ topdesk = None THEN FALSE
    ELSE normalize_value(zabbix) = normalize_value(topdesk)

\* the try block of compare_values: the numbers when float() took both values,
\* the normalized values when it raised
NumbersOrStrings(zabbix_num, topdesk_num, zabbix_norm, topdesk_norm) ==
    IF zabbix_num.ok /\ topdesk_num.ok
    \* a comparison with nan is false
    THEN /\ ~zabbix_num.nan /\ ~topdesk_num.nan
         /\ Abs(zabbix_num.n - topdesk_num.n) <= Tolerance
    ELSE zabbix_norm = topdesk_norm

\* DifferAgent.compare_values(zabbix_val, topdesk_val, field_name)
compare_values(zabbix, topdesk) ==
    IF zabbix = None /\ topdesk = None THEN TRUE
    ELSE IF zabbix = None \/ topdesk = None THEN FALSE
    ELSE NumbersOrStrings(Float(zabbix), Float(topdesk),
                          normalize_value(zabbix), normalize_value(topdesk))

\* the values compared: None, numbers, a boolean, numerals, nan, and words that
\* differ in case and in whitespace only
CmpValues ==
    {None, Num(8000), Num(8010), Bool(TRUE),
     Str(<<"8">>), Str(<<"8", ".", "0">>), Str(<<"8", ".", "0", "1">>),
     Str(<<"8", ".", "0", "2">>), Str(<<" ", "8", " ">>), Str(<<"1">>),
     Str(<<"n", "a", "n">>), Str(<<"T", "r", "u", "e">>),
     Str(<<"a", "b">>), Str(<<"A", "B">>), Str(<<" ", "a", "b">>),
     Str(<<"a", " ", "b">>), Str(<<"a", " ", " ", "B">>), Str(<<>>)}

CfgInit ==
    /\ case_sensitive \in BOOLEAN
    /\ normalize_whitespace \in BOOLEAN

\* a component that holds no DifferAgent: the default configuration
CfgIdle ==
    /\ case_sensitive = FALSE
    /\ normalize_whitespace = TRUE

CmpIdle ==
    /\ zabbix_val = None
    /\ topdesk_val = None
    /\ values_equal = None

InitValues ==
    /\ CallsIdle
    /\ CfgInit
    /\ zabbix_val \in CmpValues
    /\ topdesk_val \in CmpValues
    /\ values_equal = None
    /\ ResIdle
    /\ ValIdle
    /\ DifferIdle
    /\ CodecIdle
    /\ SorterIdle
    /\ ListIdle
    /\ DocIdle

CompareValues ==
    /\ values_equal = None
    /\ values_equal' = Bool(compare_values(zabbix_val, topdesk_val))
    /\ UNCHANGED <<listVars, docVars, codecVars, sortVars, resVars, valVars, callVars, csvVars, reportVars, cfgVars, zabbix_val, topdesk_val, inVars, runVars>>

NextValues == CompareValues

SpecValues == InitValues /\ [][NextValues]_vars

\* the characters of s that survive collapsing: every character that is no
\* whitespace, and the first whitespace of a run that has a word on both sides
KeptIndices(s) ==
    {i \in DOMAIN s :
        \/ ~IsSpace(s[i])
        \/ /\ i > 1 /\ ~IsSpace(s[i - 1])
           /\ \E j \in (i + 1)..Len(s) : ~IsSpace(s[j])}

\* s with its whitespace collapsed to single spaces and trimmed
Collapsed(s) ==
    LET kept == KeptIndices(s)
        nth(k) == CHOOSE i \in kept : Cardinality({j \in kept : j < i}) = k - 1
    IN [k \in 1..Cardinality(kept) |-> IF IsSpace(s[nth(k)]) THEN " " ELSE s[nth(k)]]

\* the normalized form the claim compares: of a string, under the configuration
\* of the agent; any other value is compared as it is
NormalizedForm(v) ==
    IF v.t # "str" THEN v
    ELSE LET w == IF normalize_whitespace THEN Collapsed(v.s) ELSE v.s
         IN Str(IF case_sensitive THEN w ELSE Lower(w))

NULL == Str(<<"n", "u", "l", "l">>)
PRESENT == Str(<<"p", "r", "e", "s", "e", "n", "t">>)
ABSENT == Str(<<"a", "b", "s", "e", "n", "t">>)
SYSTEM_PRESENCE == "_system_presence"

\* str(value)
PyStr(v) == IF v = None THEN Str(<<"N", "o", "n", "e">>) ELSE v

\* the permutations of a finite set, as sequences
Perms(S) ==
    {p \in [1..Cardinality(S) -> S] : \A i, j \in 1..Cardinality(S) : p[i] = p[j] => i = j}

\* the elements of S in the order they have in the sequence order
Ordered(S, order) == SelectSeq(order, LAMBDA x : x \in S)

\* dict.get(key, {}) of a data map
GetRecord(data, asset_id) == IF asset_id \in DOMAIN data THEN data[asset_id] ELSE <<>>

\* bool(record): a mapping is true when it is not empty
NonEmpty(record) == DOMAIN record # {}

Diff(field_name, zabbix_value, topdesk_value, difference_type) ==
    [field_name |-> field_name, zabbix_value |-> zabbix_value,
     topdesk_value |-> topdesk_value, difference_type |-> difference_type]

\* the field names of the records, in the order every record holds its items: a
\* dict keeps its items in the order of insertion, the same in every run
FieldNames == <<"ip", "os", "hw", "sn">>

RECURSIVE SingleSystemFields(_, _, _)
\* the loop of _handle_single_system_asset over asset_data.items(), in field order
SingleSystemFields(asset_data, system, fields) ==
    IF fields = <<>> THEN <<>>
    ELSE LET field_name == Head(fields)
             value == asset_data[field_name]
             rest == SingleSystemFields(asset_data, system, Tail(fields))
         IN IF field_name \notin excluded_fields
            THEN <<Diff(field_name,
                        IF system = "zabbix" THEN value ELSE NULL,
                        IF system = "topdesk" THEN value ELSE NULL,
                        IF system = "zabbix" THEN "missing_in_topdesk"
                        ELSE "missing_in_zabbix")>> \o rest
            ELSE rest

\* DifferAgent._handle_single_system_asset(asset_id, asset_data, system); the loop
\* follows the order of the items of asset_data
handle_single_system_asset(asset_data, system) ==
    <<Diff(SYSTEM_PRESENCE,
           IF system = "zabbix" THEN PRESENT ELSE ABSENT,
           IF system = "topdesk" THEN PRESENT ELSE ABSENT,
           "asset_missing")>>
    \o SingleSystemFields(asset_data, system, Ordered(DOMAIN asset_data, FieldNames))

\* the body of the loop of _compare_matched_assets for one field
MatchedField(zabbix_asset, topdesk_asset, field_name) ==
    LET zabbix_value == Get(zabbix_asset, field_name)
        topdesk_value == Get(topdesk_asset, field_name)
    IN IF field_name \in excluded_fields THEN <<>>
       ELSE IF field_name \notin DOMAIN zabbix_asset
       THEN <<Diff(field_name, NULL, PyStr(topdesk_value), "missing_in_zabbix")>>
       ELSE IF field_name \notin DOMAIN topdesk_asset
       THEN <<Diff(field_name, PyStr(zabbix_value), NULL, "missing_in_topdesk")>>
       ELSE IF ~compare_values(zabbix_value, topdesk_value)
       THEN <<Diff(field_name, PyStr(zabbix_value), PyStr(topdesk_value),
                   "value_mismatch")>>
       ELSE <<>>

RECURSIVE MatchedFields(_, _, _)
\* the loop of _compare_matched_assets over all_fields, in field order
MatchedFields(zabbix_asset, topdesk_asset, fields) ==
    IF fields = <<>> THEN <<>>
    ELSE MatchedField(zabbix_asset, topdesk_asset, Head(fields))
         \o MatchedFields(zabbix_asset, topdesk_asset, Tail(fields))

\* _compare_matched_assets that walks the fields of the Zabbix record only
compare_matched_assets_zabbix_fields(zabbix_asset, topdesk_asset, order) ==
    MatchedFields(zabbix_asset, topdesk_asset, Ordered(DOMAIN zabbix_asset, order))

\* DifferAgent._compare_matched_assets(zabbix_asset, topdesk_asset); order is the
\* iteration order of the set all_fields
compare_matched_assets(zabbix_asset, topdesk_asset, order) ==
    MatchedFields(zabbix_asset, topdesk_asset,
                  Ordered(DOMAIN zabbix_asset \cup DOMAIN topdesk_asset, order))

\* the body of the loop of compare_assets for one asset: the differences of the
\* asset and the counter the asset is counted in
CompareOne(z_data, t_data, asset_id, order) ==
    LET zabbix_asset == GetRecord(z_data, asset_id)
        topdesk_asset == GetRecord(t_data, asset_id)
    IN IF ~NonEmpty(zabbix_asset)
       THEN [counter |-> "topdesk_only",
             differences |-> handle_single_system_asset(topdesk_asset, "topdesk")]
       ELSE IF ~NonEmpty(topdesk_asset)
       THEN [counter |-> "zabbix_only",
             differences |-> handle_single_system_asset(zabbix_asset, "zabbix")]
       ELSE [counter |-> "matched_assets",
             differences |-> compare_matched_assets(zabbix_asset, topdesk_asset, order)]

\* the end of the loop body of compare_assets: the asset is counted and its
\* differences, if any, are added to all_differences
Count(acc, asset_id, one) ==
    IF one.differences # <<>>
    THEN [all_differences |->
              Append(acc.all_differences,
                     [asset_id |-> asset_id, differences |-> one.differences]),
          stats |-> [acc.stats EXCEPT
              ![one.counter] = @ + 1,
              !.assets_with_differences = @ + 1,
              !.total_differences = @ + Len(one.differences)]]
    ELSE [all_differences |-> acc.all_differences,
          stats |-> [acc.stats EXCEPT ![one.counter] = @ + 1]]

RECURSIVE CompareLoop(_, _, _, _, _)
\* the loop of compare_assets over all_asset_ids, in the order ids; acc holds
\* all_differences (its items in insertion order) and self.stats
CompareLoop(z_data, t_data, ids, field_orders, acc) ==
    IF ids = <<>> THEN acc
    ELSE CompareLoop(z_data, t_data, Tail(ids), field_orders,
                     Count(acc, Head(ids),
                           CompareOne(z_data, t_data, Head(ids), field_orders[Head(ids)])))

\* DifferAgent.compare_assets(zabbix_data, topdesk_data) on an agent whose statistics
\* are stats0; asset_order is the iteration order of the set all_asset_ids and
\* field_orders[id] the iteration order of the set all_fields of asset id; the
\* order of a set of strings is the choice of the run (the hashes of the strings
\* are salted per process)
compare_assets(z_data, t_data, stats0, asset_order, field_orders) ==
    LET all_asset_ids == DOMAIN z_data \cup DOMAIN t_data
    IN CompareLoop(z_data, t_data, Ordered(all_asset_ids, asset_order), field_orders,
                   [all_differences |-> <<>>,
                    stats |-> [stats0 EXCEPT
                        !.total_assets_processed = Cardinality(all_asset_ids)]])

\* n / d rounded to the nearest integer (d > 0)
RoundDiv(n, d) == (2 * n + d) \div (2 * d)

\* round(matching_fields / total_fields * 100, 2), in hundredths of a percent
SimilarityScore(matching_fields, total_fields) ==
    RoundDiv(matching_fields * 100 * 100, total_fields)

\* the values a document has when generate_dif_file did not set them
NoNote == "no note"
NoScore == -1
ONLY_IN_TOPDESK == "Asset exists only in Topdesk system"
ONLY_IN_ZABBIX == "Asset exists only in Zabbix system"

\* the number of the differences of a kind
CountType(differences, difference_type) ==
    Cardinality({i \in DOMAIN differences :
                    differences[i].difference_type = difference_type})

\* the entries of dif_content['differences']: the differences without the marker
\* and without their kind
RECURSIVE DocEntries(_)
DocEntries(differences) ==
    IF differences = <<>> THEN <<>>
    ELSE LET diff == Head(differences)
         IN (IF diff.field_name # SYSTEM_PRESENCE
             THEN <<[field_name |-> diff.field_name, zabbix_value |-> diff.zabbix_value,
                     topdesk_value |-> diff.topdesk_value]>>
             ELSE <<>>) \o DocEntries(Tail(differences))

\* DifferAgent.generate_dif_file(asset_id, differences): dif_content (the timestamp
\* is left out)
generate_dif_file(asset_id, differences) ==
    LET markers == {i \in DOMAIN differences :
                       differences[i].difference_type = "asset_missing"}
        \* asset_missing is the last marker of the list, None without one
        has_marker == markers # {}
        asset_missing ==
            differences[CHOOSE i \in markers : \A j \in markers : j <= i]
        note == IF ~has_marker THEN NoNote
                ELSE IF asset_missing.zabbix_value = ABSENT THEN ONLY_IN_TOPDESK
                ELSE ONLY_IN_ZABBIX
        total_fields ==
            Cardinality({differences[i].field_name : i \in DOMAIN differences}
                        \ {SYSTEM_PRESENCE})
        matching_fields == total_fields - Len(differences)
    IN [asset_id |-> asset_id,
        total_differences |-> Len(differences),
        note |-> note,
        differences |-> DocEntries(differences),
        summary |-> [value_mismatches |-> CountType(differences, "value_mismatch"),
                     missing_in_zabbix |-> CountType(differences, "missing_in_zabbix"),
                     missing_in_topdesk |-> CountType(differences, "missing_in_topdesk")],
        similarity_score |->
            IF ~has_marker /\ differences # <<>> /\ total_fields > 0
            THEN SimilarityScore(matching_fields, total_fields) ELSE NoScore]

\* the documents of output_dir after the loop of process_comparison over
\* all_differences.items()
WriteFiles(files, items) ==
    LET written == {items[i].asset_id : i \in DOMAIN items}
        item(id) == items[CHOOSE i \in DOMAIN items : items[i].asset_id = id]
    IN [id \in DOMAIN files \cup written |->
           IF id \in written THEN generate_dif_file(id, item(id).differences)
           ELSE files[id]]

\* ------------------------------------------------------------------------
\* SpecDiffer: comparison runs of one DifferAgent over two assets
\* SpecAsset:  comparison runs of one DifferAgent over one asset, any records

\* the asset ids and the field values of the data maps
AssetIds == {"A1", "A2"}
FieldValues == {Str(<<"a">>), Str(<<"A">>)}

\* the field names of the records: the first MaxFields of FieldNames
MaxFields == 2
Fields == {FieldNames[i] : i \in 1..(IF MaxFields < 4 THEN MaxFields ELSE 4)}

\* the fields all the records of one two-asset data map hold together, at most
MaxTotalFields == 1

\* the runs made on one agent
MaxRuns == 2

\* the records: every function from some fields to values
Records == UNION {[fs -> FieldValues] : fs \in SUBSET Fields}

\* the data maps over the asset ids ids
MapsOver(ids) == UNION {[present -> Records] : present \in SUBSET ids}

RECURSIVE TotalFields(_, _)
\* the number of fields the records of the assets ids of data hold together
TotalFields(data, ids) ==
    IF ids = {} THEN 0
    ELSE LET id == CHOOSE x \in ids : TRUE
         IN Cardinality(DOMAIN data[id]) + TotalFields(data, ids \ {id})

DataMaps == {data \in MapsOver(AssetIds) : TotalFields(data, DOMAIN data) <= MaxTotalFields}

\* DifferAgent.__init__, before the first run
NewAgent ==
    /\ case_sensitive \in BOOLEAN
    /\ normalize_whitespace = TRUE
    /\ excluded_fields \in {{}, {"os"}}
    /\ stats = ZeroStats
    /\ all_differences = <<>>
    /\ generated_files = <<>>
    /\ dif_files = <<>>
    /\ last_run = "none"
    /\ n_runs = 0

InitDiffer ==
    /\ CallsIdle
    /\ NewAgent
    /\ zabbix_data \in DataMaps
    /\ topdesk_data \in DataMaps
    /\ ResIdle
    /\ ValIdle
    /\ CmpIdle
    /\ CodecIdle
    /\ SorterIdle
    /\ ListIdle
    /\ DocIdle

InitAsset ==
    /\ CallsIdle
    /\ NewAgent
    /\ zabbix_data \in MapsOver({"A1"})
    /\ topdesk_data \in MapsOver({"A1"})
    /\ ResIdle
    /\ ValIdle
    /\ CmpIdle
    /\ CodecIdle
    /\ SorterIdle
    /\ ListIdle
    /\ DocIdle

\* the files process_comparison returns: one per item of all_differences
RECURSIVE FileNames(_)
FileNames(items) ==
    IF items = <<>> THEN <<>> ELSE <<Head(items).asset_id>> \o FileNames(Tail(items))

\* the iteration orders a run may meet: of the set of asset ids, and of the fields
\* of each asset
AssetOrders == Perms(DOMAIN zabbix_data \cup DOMAIN topdesk_data)
FieldOrders == [DOMAIN zabbix_data \cup DOMAIN topdesk_data -> Perms(Fields)]

\* the agent after compare_assets has returned run.all_differences and left
\* run.stats in self.stats
Compared(run) ==
    /\ stats' = run.stats
    /\ all_differences' = run.all_differences

\* the agent and output_dir after the loop of process_comparison over the
\* differences compare_assets returned
Processed(run) ==
    /\ Compared(run)
    /\ generated_files' = FileNames(run.all_differences)
    /\ dif_files' = WriteFiles(dif_files, run.all_differences)

\* DifferAgent.process_comparison(zabbix_data, topdesk_data)
ProcessComparison ==
    /\ n_runs < MaxRuns
    /\ \E asset_order \in AssetOrders, field_orders \in FieldOrders :
        Processed(compare_assets(zabbix_data, topdesk_data, ZeroStats,
                                 asset_order, field_orders))
    /\ last_run' = "process_comparison"
    /\ n_runs' = n_runs + 1
    /\ UNCHANGED <<listVars, docVars, codecVars, sortVars, resVars, valVars, callVars, csvVars, reportVars, cfgVars, cmpVars, inVars>>

\* DifferAgent.compare_assets(zabbix_data, topdesk_data), called on the agent
CompareAssets ==
    /\ n_runs < MaxRuns
    /\ \E asset_order \in AssetOrders, field_orders \in FieldOrders :
        Compared(compare_assets(zabbix_data, topdesk_data, stats,
                                asset_order, field_orders))
    /\ last_run' = "compare_assets"
    /\ n_runs' = n_runs + 1
    /\ UNCHANGED <<listVars, docVars, codecVars, sortVars, resVars, valVars, callVars, csvVars, reportVars, cfgVars, cmpVars, inVars, generated_files, dif_files>>

NextDiffer == ProcessComparison \/ CompareAssets

SpecDiffer == InitDiffer /\ [][NextDiffer]_vars

SpecAsset == InitAsset /\ [][NextDiffer]_vars

\* the differences the last run holds for an asset (none: the asset is not a key
\* of the map)
DiffsOf(asset_id) ==
    IF \E i \in DOMAIN all_differences : all_differences[i].asset_id = asset_id
    THEN all_differences[CHOOSE i \in DOMAIN all_differences :
                            all_differences[i].asset_id = asset_id].differences
    ELSE <<>>

\* the number of differences of a list on a field, of one kind and of any kind
CountOn(ds, field_name, difference_type) ==
    Cardinality({i \in DOMAIN ds : /\ ds[i].field_name = field_name
                                   /\ ds[i].difference_type = difference_type})
CountField(ds, field_name) ==
    Cardinality({i \in DOMAIN ds : ds[i].field_name = field_name})

\* C4: after a run, for an asset that is a key of both maps, every field of the
\* union of both records that is not excluded has exactly one missing_in_zabbix
\* difference if the source record lacks it, exactly one missing_in_topdesk
\* difference if the target record lacks it, exactly one value_mismatch difference
\* if both hold it with values that compare_values finds different, and no
\* difference otherwise; an excluded field has no difference.
C4_MatchedFieldDifferences ==
    n_runs > 0 =>
        \A id \in DOMAIN zabbix_data \cap DOMAIN topdesk_data :
            LET z == zabbix_data[id]
                t == topdesk_data[id]
                ds == DiffsOf(id)
            IN /\ \A f \in (DOMAIN z \cup DOMAIN t) \ excluded_fields :
                    IF f \notin DOMAIN z
                    THEN CountOn(ds, f, "missing_in_zabbix") = 1 /\ CountField(ds, f) = 1
                    ELSE IF f \notin DOMAIN t
                    THEN CountOn(ds, f, "missing_in_topdesk") = 1 /\ CountField(ds, f) = 1
                    ELSE IF ~compare_values(z[f], t[f])
                    THEN CountOn(ds, f, "value_mismatch") = 1 /\ CountField(ds, f) = 1
                    ELSE CountField(ds, f) = 0
               /\ \A f \in excluded_fields : CountField(ds, f) = 0

\* C4 witness: a run has compared two records of one asset that differ in the value
\* of one field, where the source lacks a second field that the target holds
C4_Witness ==
    /\ n_runs > 0
    /\ \E id \in DOMAIN zabbix_data \cap DOMAIN topdesk_data :
        /\ NonEmpty(zabbix_data[id])
        /\ DOMAIN topdesk_data[id] \ DOMAIN zabbix_data[id] # {}
        /\ \E i, j \in DOMAIN DiffsOf(id) :
            /\ DiffsOf(id)[i].difference_type = "value_mismatch"
            /\ DiffsOf(id)[j].difference_type = "missing_in_zabbix"

\* C5: the document of an asset that both maps hold (with records that are not
\* empty) has similarity_score = (compared - differing) / compared * 100 rounded to
\* 2 decimals, compared being the number of fields of the union that are not
\* excluded: 0 when the only compared field differs, 50 when one of two differs.
C5_SimilarityScore ==
    \A id \in DOMAIN dif_files \cap DOMAIN zabbix_data \cap DOMAIN topdesk_data :
        (NonEmpty(zabbix_data[id]) /\ NonEmpty(topdesk_data[id])) =>
            LET compared == Cardinality((DOMAIN zabbix_data[id]
                                         \cup DOMAIN topdesk_data[id]) \ excluded_fields)
                differing == Len(dif_files[id].differences)
                score == dif_files[id].similarity_score
            IN /\ score = RoundDiv((compared - differing) * 100 * 100, compared)
               /\ (compared = 1 /\ differing = 1) => score = 0
               /\ (compared = 2 /\ differing = 1) => score = 50 * 100

\* C6: after a run the three counters matched_assets, zabbix_only and topdesk_only
\* sum to total_assets_processed, the number of distinct asset ids of both maps.
C6_CountersPartition ==
    n_runs > 0 =>
        /\ stats.total_assets_processed =
               Cardinality(DOMAIN zabbix_data \cup DOMAIN topdesk_data)
        /\ stats.matched_assets + stats.zabbix_only + stats.topdesk_only =
               stats.total_assets_processed

RECURSIVE TotalEntries(_)
\* the number of difference entries of a difference map
TotalEntries(items) ==
    IF items = <<>> THEN 0 ELSE Len(Head(items).differences) + TotalEntries(Tail(items))

\* C7: after every run (process_comparison or compare_assets) the statistics equal
\* a re-scan of the difference map of that run: assets_with_differences is the
\* number of its asset ids and total_differences the number of its entries.
C7_StatsMatchRescan ==
    n_runs > 0 =>
        /\ stats.assets_with_differences = Len(all_differences)
        /\ stats.total_differences = TotalEntries(all_differences)

\* C9: after a run, an asset that is a key of one map only has the asset_missing
\* marker exactly once and first, then exactly one missing_in_<absent system>
\* difference per field of its record that is not excluded and nothing else; its
\* document names the system that holds it in the note, has no entry for the marker
\* and no similarity score. An asset that is a key of both maps has no marker.
C9_SingleSystemAsset ==
    n_runs > 0 =>
        \A id \in DOMAIN zabbix_data \cup DOMAIN topdesk_data :
            LET ds == DiffsOf(id)
                in_zabbix == id \in DOMAIN zabbix_data
                in_topdesk == id \in DOMAIN topdesk_data
                record == IF in_zabbix THEN zabbix_data[id] ELSE topdesk_data[id]
                kind == IF in_zabbix THEN "missing_in_topdesk" ELSE "missing_in_zabbix"
            IN IF in_zabbix /\ in_topdesk
               THEN \A i \in DOMAIN ds : ds[i].difference_type # "asset_missing"
               ELSE /\ Len(ds) >= 1
                    /\ ds[1].difference_type = "asset_missing"
                    /\ \A i \in 2..Len(ds) :
                        /\ ds[i].difference_type = kind
                        /\ ds[i].field_name \in DOMAIN record \ excluded_fields
                    /\ \A f \in DOMAIN record \ excluded_fields : CountField(ds, f) = 1
                    /\ last_run = "process_comparison" =>
                        /\ id \in DOMAIN dif_files
                        /\ dif_files[id].note =
                               (IF in_zabbix THEN ONLY_IN_ZABBIX ELSE ONLY_IN_TOPDESK)
                        /\ \A i \in DOMAIN dif_files[id].differences :
                               dif_files[id].differences[i].field_name # SYSTEM_PRESENCE
                        /\ dif_files[id].similarity_score = NoScore

\* ------------------------------------------------------------------------
\* ValidationResult (validator.py)

PASSED == "PASSED"
PASSED_WITH_WARNINGS == "PASSED_WITH_WARNINGS"
FAILED == "FAILED"

\* ValidationResult.__init__
NewResult(name) ==
    [name |-> name, status |-> PASSED, checks_performed |-> 0, passed_checks |-> 0,
     warnings |-> <<>>, errors |-> <<>>, critical_errors |-> <<>>,
     info_messages |-> <<>>, metadata |-> <<>>, end_time |-> NoMessage]

\* ValidationResult.add_check(passed, message)
add_check(r, passed, message) ==
    LET r1 == [r EXCEPT !.checks_performed = @ + 1] IN
    IF passed THEN [r1 EXCEPT !.passed_checks = @ + 1]
    ELSE IF message # NoMessage THEN [r1 EXCEPT !.errors = Append(@, message)]
    ELSE r1

\* ValidationResult.add_warning(message)
add_warning(r, message) ==
    LET r1 == [r EXCEPT !.warnings = Append(@, message)] IN
    IF r1.status = PASSED THEN [r1 EXCEPT !.status = PASSED_WITH_WARNINGS] ELSE r1

\* add_error that records a critical error without touching the status
add_error_critical_keeps_status(r, message, critical) ==
    IF critical THEN [r EXCEPT !.critical_errors = Append(@, message)]
    ELSE [r EXCEPT !.errors = Append(@, message), !.status = FAILED]

\* ValidationResult.add_error(message, critical)
add_error(r, message, critical) ==
    IF critical
    THEN [r EXCEPT !.critical_errors = Append(@, message), !.status = FAILED]
    ELSE LET r1 == [r EXCEPT !.errors = Append(@, message)] IN
         IF r1.status \in {PASSED, PASSED_WITH_WARNINGS}
         THEN [r1 EXCEPT !.status = FAILED] ELSE r1

\* ValidationResult.add_info(message)
add_info(r, message) == [r EXCEPT !.info_messages = Append(@, message)]

\* ------------------------------------------------------------------------
\* SpecResult: any sequence of calls on one ValidationResult

\* the number of calls made on one ValidationResult
MaxCalls == 4

\* the messages of the calls
Messages == {"m1", "m2"}

ResInit ==
    /\ result = NewResult("r")
    /\ prev_status = None
    /\ last_call = [op |-> "init"]
    /\ n_calls = 0

Call(r, c) ==
    /\ n_calls < MaxCalls
    /\ result' = r
    /\ prev_status' = result.status
    /\ last_call' = c
    /\ n_calls' = n_calls + 1
    /\ UNCHANGED <<listVars, docVars, codecVars, sortVars, valVars, callVars, csvVars, reportVars, cfgVars, cmpVars, inVars, runVars>>

AddCheck ==
    \E passed \in BOOLEAN, m \in Messages \cup {NoMessage} :
        Call(add_check(result, passed, m),
             [op |-> "add_check", passed |-> passed, message |-> m])

AddWarning ==
    \E m \in Messages : Call(add_warning(result, m), [op |-> "add_warning"])

AddError ==
    \E m \in Messages, critical \in BOOLEAN :
        Call(add_error(result, m, critical), [op |-> "add_error", critical |-> critical])

AddInfo ==
    \E m \in Messages : Call(add_info(result, m), [op |-> "add_info"])

ResNext == AddCheck \/ AddWarning \/ AddError \/ AddInfo

InitResult ==
    /\ CallsIdle
    /\ ResInit /\ ValIdle /\ CfgIdle /\ CmpIdle /\ DifferIdle /\ CodecIdle /\ SorterIdle
    /\ ListIdle /\ DocIdle

SpecResult == InitResult /\ [][ResNext]_vars

\* the order PASSED -> PASSED_WITH_WARNINGS -> FAILED
StatusRank(st) == CASE st = PASSED -> 0 [] st = PASSED_WITH_WARNINGS -> 1 [] st = FAILED -> 2

\* C1: on one ValidationResult the status starts at PASSED and every call moves it
\* forward or leaves it: add_warning raises PASSED to PASSED_WITH_WARNINGS and changes
\* no other status, every add_error (critical or not) leaves it FAILED, and a FAILED
\* status is never changed by a later call.
C1_StatusMonotonic ==
    /\ result.status \in {PASSED, PASSED_WITH_WARNINGS, FAILED}
    /\ n_calls = 0 => result.status = PASSED
    /\ n_calls > 0 =>
        /\ StatusRank(prev_status) <= StatusRank(result.status)
        /\ last_call.op = "add_warning" =>
               result.status = IF prev_status = PASSED THEN PASSED_WITH_WARNINGS
                               ELSE prev_status
        /\ last_call.op = "add_error" => result.status = FAILED
        /\ prev_status = FAILED => result.status = FAILED

\* C1 witness: a critical error without any plain error has failed the result, and a
\* later add_warning has left it FAILED
C1_Witness ==
    /\ result.status = FAILED
    /\ prev_status = FAILED
    /\ last_call.op = "add_warning"
    /\ result.critical_errors # <<>>
    /\ result.errors = <<>>

\* ------------------------------------------------------------------------
\* MergerValidator (validator.py)

\* bool(value) of a value that is None or a string
Truthy(v) == v.t = "str" /\ v.s # <<>>

\* the field_mappings argument of validate_data_sync: source field -> target field
\* (the two first entries of FIELD_MAPPINGS)
SyncMappings == {<<"host", "asset_id">>, <<"ip", "ip_address">>}

\* MergerValidator._get_mapped_value(data, target_field, mappings)
get_mapped_value(data, target_field, mappings) ==
    IF \E m \in mappings : m[2] = target_field
    THEN Get(data, (CHOOSE m \in mappings : m[2] = target_field)[1])
    ELSE Get(data, target_field)

\* the dict built by "for item in items: if id: by_id[id] = item" (the last item wins);
\* ids[i] is the identifier read from items[i]
ById(items, ids) ==
    LET keys == {ids[i] : i \in {j \in DOMAIN items : Truthy(ids[j])}}
        last(id) == CHOOSE i \in DOMAIN items :
                        ids[i] = id /\ \A j \in DOMAIN items : ids[j] = id => j <= i
    IN [id \in keys |-> items[last(id)]]

\* the detailed mismatch warnings validate_data_sync writes at most
MaxDetailedSyncErrors == 5

RECURSIVE AddWarnings(_, _, _)
\* n calls of add_warning(message)
AddWarnings(r, message, n) ==
    IF n = 0 THEN r ELSE AddWarnings(add_warning(r, message), message, n - 1)

\* ValidationResult.add_check, with a failed check escalating the status
add_check_escalating(r, passed, message) ==
    IF passed \/ message = NoMessage THEN add_check([r EXCEPT !.status = PASSED], passed, message)
    ELSE [add_check(r, passed, message) EXCEPT !.status = FAILED]

\* result.metadata[key] = value
SetMetadata(r, key, value) ==
    [r EXCEPT !.metadata = [k \in DOMAIN @ \cup {key} |-> IF k = key THEN value ELSE @[k]]]

\* a list element that is a mapping (item.get exists)
IsDict(item) == "t" \notin DOMAIN item

\* the try block of validate_data_sync, every item being a mapping
DataSyncBody(r0, source_data, target_data, mappings) ==
    LET source_by_id ==
            ById(source_data, [i \in DOMAIN source_data |->
                                  get_mapped_value(source_data[i], "asset_id", mappings)])
        target_by_id ==
            ById(target_data, [i \in DOMAIN target_data |-> Get(target_data[i], "asset_id")])
        missing_in_target == DOMAIN source_by_id \ DOMAIN target_by_id
        missing_in_source == DOMAIN target_by_id \ DOMAIN source_by_id
        common == DOMAIN source_by_id \cap DOMAIN target_by_id
        mismatches ==
            {<<id, m>> \in common \X mappings :
                LET source_value == Get(source_by_id[id], m[1])
                    target_value == Get(target_by_id[id], m[2])
                IN /\ Truthy(source_value) /\ Truthy(target_value)
                   /\ Strip(source_value.s) # Strip(target_value.s)}
        sync_errors == Cardinality(mismatches)
        r1 == IF missing_in_target # {}
              THEN add_warning(r0, "assets in source not found in target") ELSE r0
        r2 == IF missing_in_source # {}
              THEN add_info(r1, "assets in target not found in source") ELSE r1
        r3 == IF missing_in_target # {}
              THEN SetMetadata(r2, "missing_in_target", missing_in_target) ELSE r2
        r4 == AddWarnings(r3, "Field mismatch",
                          IF sync_errors <= MaxDetailedSyncErrors
                          THEN sync_errors ELSE MaxDetailedSyncErrors)
        r5 == SetMetadata(SetMetadata(r4, "sync_errors", sync_errors),
                          "assets_compared", Cardinality(common))
    IN add_check(r5, sync_errors = 0, "Field synchronization")

\* the finally clause of every validation method: result.end_time = datetime.now()
Finish(r) == [r EXCEPT !.end_time = "set"]

\* MergerValidator.validate_data_sync(source_data, target_data, field_mappings)
validate_data_sync(source_data, target_data, mappings) ==
    LET r0 == NewResult("Data Sync Validation")
        all_dicts == /\ \A i \in DOMAIN source_data : IsDict(source_data[i])
                     /\ \A i \in DOMAIN target_data : IsDict(target_data[i])
    IN Finish(IF all_dicts THEN DataSyncBody(r0, source_data, target_data, mappings)
              \* item.get raises AttributeError in the loops that build the lookups
              ELSE add_error(r0, "Sync validation error", TRUE))

\* the records of one list given to validate_data_sync
MaxSyncItems == 1

\* the validation calls made on one MergerValidator
MaxHistory == 3

SyncIds == {Str(<<"a">>), Str(<<"b">>)}
SyncValues == {None, Str(<<"x">>), Str(<<"x", " ">>), Str(<<"y">>)}
\* the items of the lists: mappings, and a string where a mapping is expected
SourceItems ==
    {[host |-> h, ip |-> v] : h \in SyncIds \cup {None}, v \in SyncValues}
    \cup {Str(<<"x">>)}
TargetItems ==
    {[asset_id |-> a, ip_address |-> v] : a \in SyncIds \cup {None}, v \in SyncValues}
    \cup {Str(<<"x">>)}

\* the sequences over S of length at most n
SeqUpTo(S, n) == UNION {[1..k -> S] : k \in 0..n}

ValInit ==
    /\ validation_history = <<>>
    /\ returned = None

\* a validation method returns r: it has appended r to validation_history
Return(r) ==
    /\ Len(validation_history) < MaxHistory
    /\ validation_history' = Append(validation_history, r)
    /\ returned' = r
    /\ UNCHANGED <<listVars, docVars, codecVars, sortVars, resVars, callVars, csvVars, reportVars, cfgVars, cmpVars, inVars, runVars>>

ValidateDataSync ==
    \E source_data \in SeqUpTo(SourceItems, MaxSyncItems),
       target_data \in SeqUpTo(TargetItems, MaxSyncItems) :
        Return(validate_data_sync(source_data, target_data, SyncMappings))

ValNext == ValidateDataSync

InitValidator ==
    /\ CallsIdle
    /\ ValInit /\ ResIdle /\ CfgIdle /\ CmpIdle /\ DifferIdle /\ CodecIdle /\ SorterIdle
    /\ ListIdle /\ DocIdle

SpecValidator == InitValidator /\ [][ValNext]_vars

\* C2: every result a validation method returns has status FAILED when its errors
\* list is not empty, also when it has no critical error.
C2_ErrorsImplyFailed ==
    returned # None => (returned.errors # <<>> => returned.status = FAILED)

\* ------------------------------------------------------------------------
\* The text format of the difference documents: the writer of generate_dif_file
\* (differ.py) and DifFileParser.parse_dif_file (differ_utils.py)

\* the characters of the string literals of the writer and the parser, and of the
\* asset ids, field names and notes of the model
Chars(text) ==
    CASE text = "A1" ->
        <<"A", "1">>
      [] text = "A2" ->
        <<"A", "2">>
      [] text = "ip" ->
        <<"i", "p">>
      [] text = "os" ->
        <<"o", "s">>
      [] text = "hw" ->
        <<"h", "w">>
      [] text = "sn" ->
        <<"s", "n">>
      [] text = "Asset exists only in Topdesk system" ->
        <<"A", "s", "s", "e", "t", " ", "e", "x", "i", "s", "t", "s", " ", "o",
          "n", "l", "y", " ", "i", "n", " ", "T", "o", "p", "d", "e", "s", "k",
          " ", "s", "y", "s", "t", "e", "m">>
      [] text = "Asset exists only in Zabbix system" ->
        <<"A", "s", "s", "e", "t", " ", "e", "x", "i", "s", "t", "s", " ", "o",
          "n", "l", "y", " ", "i", "n", " ", "Z", "a", "b", "b", "i", "x", " ",
          "s", "y", "s", "t", "e", "m">>
      [] text = "asset_id: " ->
        <<"a", "s", "s", "e", "t", "_", "i", "d", ":", " ">>
      [] text = "note: " ->
        <<"n", "o", "t", "e", ":", " ">>
      [] text = "differences:" ->
        <<"d", "i", "f", "f", "e", "r", "e", "n", "c", "e", "s", ":">>
      [] text = "  - field_name: " ->
        <<" ", " ", "-", " ", "f", "i", "e", "l", "d", "_", "n", "a", "m", "e",
          ":", " ">>
      [] text = "    zabbix_value: " ->
        <<" ", " ", " ", " ", "z", "a", "b", "b", "i", "x", "_", "v", "a", "l",
          "u", "e", ":", " ">>
      [] text = "    topdesk_value: " ->
        <<" ", " ", " ", " ", "t", "o", "p", "d", "e", "s", "k", "_", "v", "a",
          "l", "u", "e", ":", " ">>
      [] text = "# Generated: " ->
        <<"#", " ", "G", "e", "n", "e", "r", "a", "t", "e", "d", ":", " ">>
      [] text = "# Total differences: " ->
        <<"#", " ", "T", "o", "t", "a", "l", " ", "d", "i", "f", "f", "e", "r",
          "e", "n", "c", "e", "s", ":", " ">>
      [] text = "# Similarity score: " ->
        <<"#", " ", "S", "i", "m", "i", "l", "a", "r", "i", "t", "y", " ", "s",
          "c", "o", "r", "e", ":", " ">>
      [] text = "# Value mismatches: " ->
        <<"#", " ", "V", "a", "l", "u", "e", " ", "m", "i", "s", "m", "a", "t",
          "c", "h", "e", "s", ":", " ">>
      [] text = "# Missing in Zabbix: " ->
        <<"#", " ", "M", "i", "s", "s", "i", "n", "g", " ", "i", "n", " ", "Z",
          "a", "b", "b", "i", "x", ":", " ">>
      [] text = "# Missing in Topdesk: " ->
        <<"#", " ", "M", "i", "s", "s", "i", "n", "g", " ", "i", "n", " ", "T",
          "o", "p", "d", "e", "s", "k", ":", " ">>
      [] text = "asset_id:" ->
        <<"a", "s", "s", "e", "t", "_", "i", "d", ":">>
      [] text = "note:" ->
        <<"n", "o", "t", "e", ":">>
      [] text = "- field_name:" ->
        <<"-", " ", "f", "i", "e", "l", "d", "_", "n", "a", "m", "e", ":">>
      [] text = "zabbix_value:" ->
        <<"z", "a", "b", "b", "i", "x", "_", "v", "a", "l", "u", "e", ":">>
      [] text = "topdesk_value:" ->
        <<"t", "o", "p", "d", "e", "s", "k", "_", "v", "a", "l", "u", "e", ":">>

\* str.startswith(prefix)
StartsWith(s, prefix) == Len(s) >= Len(prefix) /\ SubSeq(s, 1, Len(prefix)) = prefix

\* line.split(':', 1)[1] of a line that holds a colon
AfterColon(line) ==
    LET i == CHOOSE k \in DOMAIN line : line[k] = ":" /\ \A j \in 1..(k - 1) : line[j] # ":"
    IN SubSeq(line, i + 1, Len(line))

RECURSIVE StripQuotes(_)
\* value.strip('"')
StripQuotes(s) ==
    IF s # <<>> /\ Head(s) = "\"" THEN StripQuotes(Tail(s))
    ELSE IF s # <<>> /\ s[Len(s)] = "\"" THEN StripQuotes(SubSeq(s, 1, Len(s) - 1))
    ELSE s

\* the decimal digits
DigitChar == <<"0", "1", "2", "3", "4", "5", "6", "7", "8", "9">>

RECURSIVE IntText(_)
\* str(n) of an integer n >= 0
IntText(n) ==
    IF n < 10 THEN <<DigitChar[n + 1]>>
    ELSE IntText(n \div 10) \o <<DigitChar[(n % 10) + 1]>>

\* str(score) of a float that round(.., 2) returned, score in hundredths
ScoreText(score) ==
    LET magnitude == IF score < 0 THEN -score ELSE score
        frac == magnitude % 100
    IN (IF score < 0 THEN <<"-">> ELSE <<>>)
       \o IntText(magnitude \div 100) \o <<".">>
       \o (IF frac % 10 = 0 THEN <<DigitChar[(frac \div 10) + 1]>>
           ELSE <<DigitChar[(frac \div 10) + 1], DigitChar[(frac % 10) + 1]>>)

RECURSIVE EntryLines(_)
\* the three lines written for every entry of dif_content['differences']
EntryLines(differences) ==
    IF differences = <<>> THEN <<>>
    ELSE LET diff == Head(differences)
         IN <<Chars("  - field_name: ") \o Chars(diff.field_name),
              Chars("    zabbix_value: ") \o <<"\"">> \o diff.zabbix_value.s \o <<"\"">>,
              Chars("    topdesk_value: ") \o <<"\"">> \o diff.topdesk_value.s \o <<"\"">>>>
            \o EntryLines(Tail(differences))

\* the lines generate_dif_file writes for dif_content (every line without its "\n";
\* no string of the model holds a "\n"), timestamp being dif_content['timestamp']
DifLines(dif_content, timestamp) ==
    <<Chars("asset_id: ") \o Chars(dif_content.asset_id)>>
    \o (IF dif_content.note # NoNote
        THEN <<Chars("note: ") \o Chars(dif_content.note)>> ELSE <<>>)
    \o <<Chars("differences:")>>
    \o EntryLines(dif_content.differences)
    \o <<<<>>,
         Chars("# Generated: ") \o timestamp,
         Chars("# Total differences: ") \o IntText(dif_content.total_differences)>>
    \o (IF dif_content.similarity_score # NoScore
        THEN <<Chars("# Similarity score: ")
               \o ScoreText(dif_content.similarity_score) \o <<"%">>>>
        ELSE <<>>)
    \o <<Chars("# Value mismatches: ") \o IntText(dif_content.summary.value_mismatches),
         Chars("# Missing in Zabbix: ")
             \o IntText(dif_content.summary.missing_in_zabbix),
         Chars("# Missing in Topdesk: ")
             \o IntText(dif_content.summary.missing_in_topdesk)>>

\* \w and \s of the regular expression of the metadata comments
IsWord(c) == c \notin {" ", "\t", "\n", "\"", ":", "#", "-", "%", "."}
IsWordOrSpace(c) == IsWord(c) \/ IsSpace(c)

\* re.match(r'# (\w[\w\s]+): (.+)', line): the groups (key, value) of the match, or
\* no match
MetadataMatch(line) ==
    LET stops == {k \in 3..Len(line) : ~IsWordOrSpace(line[k])}
        \* the character after the longest run of [\w\s] that starts at line[3]
        stop == IF stops = {} THEN Len(line) + 1
                ELSE CHOOSE k \in stops : \A j \in stops : k <= j
    IN IF /\ StartsWith(line, <<"#", " ">>)
          /\ Len(line) >= 3
          /\ IsWord(line[3])
          /\ stop - 3 >= 2
          /\ stop + 2 <= Len(line)
          /\ line[stop] = ":"
          /\ line[stop + 1] = " "
       THEN [matched |-> TRUE, key |-> SubSeq(line, 3, stop - 1),
             value |-> SubSeq(line, stop + 2, Len(line))]
       ELSE [matched |-> FALSE]

\* key.replace(' ', '_')
ReplaceSpaces(s) == [i \in DOMAIN s |-> IF s[i] = " " THEN "_" ELSE s[i]]

\* the body of the loop of parse_dif_file for one line; st holds parsed_data,
\* current_section and current_diff
ParseLine(st, raw_line) ==
    LET line == Strip(raw_line)
        found == MetadataMatch(line)
    IN IF line = <<>> THEN st
       ELSE IF StartsWith(line, <<"#">>)
       THEN IF found.matched
            THEN [st EXCEPT !.metadata =
                     (Lower(ReplaceSpaces(found.key)) :> found.value) @@ @]
            ELSE st
       ELSE IF StartsWith(line, Chars("asset_id:"))
       THEN [st EXCEPT !.asset_id = Str(Strip(AfterColon(line)))]
       ELSE IF StartsWith(line, Chars("note:"))
       THEN [st EXCEPT !.note = Str(Strip(AfterColon(line)))]
       ELSE IF line = Chars("differences:")
       THEN [st EXCEPT !.current_section = "differences"]
       ELSE IF st.current_section = "differences"
       THEN IF StartsWith(line, Chars("- field_name:"))
            THEN [st EXCEPT
                     !.differences = IF DOMAIN st.current_diff # {}
                                     THEN Append(@, st.current_diff) ELSE @,
                     !.current_diff = ("field_name" :> Strip(AfterColon(line)))]
            ELSE IF StartsWith(line, Chars("zabbix_value:"))
            THEN [st EXCEPT !.current_diff =
                     ("zabbix_value" :> StripQuotes(Strip(AfterColon(line)))) @@ @]
            ELSE IF StartsWith(line, Chars("topdesk_value:"))
            THEN [st EXCEPT !.current_diff =
                     ("topdesk_value" :> StripQuotes(Strip(AfterColon(line)))) @@ @]
            ELSE st
       ELSE st

RECURSIVE ParseLines(_, _)
\* the loop of parse_dif_file over the lines of the file
ParseLines(st, lines) ==
    IF lines = <<>> THEN st ELSE ParseLines(ParseLine(st, Head(lines)), Tail(lines))

\* DifFileParser.parse_dif_file(filepath) of the file that holds lines
parse_dif_file(lines) ==
    LET st == ParseLines([asset_id |-> None, note |-> None, differences |-> <<>>,
                          metadata |-> <<>>, current_section |-> "none",
                          current_diff |-> <<>>], lines)
    IN [asset_id |-> st.asset_id,
        note |-> st.note,
        differences |-> IF DOMAIN st.current_diff # {}
                        THEN Append(st.differences, st.current_diff)
                        ELSE st.differences,
        metadata |-> st.metadata]

\* ------------------------------------------------------------------------
\* SpecCodec: one document is written by generate_dif_file and read back by
\* parse_dif_file

\* the entries a difference list holds at most, besides the marker
MaxDocDiffs == 2

\* the values of the differences: a plain string, a string that ends with a double
\* quote (15" as in a screen size), and the null of the Comparator
CodecValues == {Str(<<"a">>), Str(<<"1", "5", "\"">>), NULL}

\* the values datetime.now().isoformat() may have
Timestamps == {<<"1", "0", ":", "0", "0">>, <<"1", "0", ":", "0", "1">>}

\* the difference of a field as the Comparator types it
TypedDiff(field_name, zabbix_value, topdesk_value) ==
    Diff(field_name, zabbix_value, topdesk_value,
         IF zabbix_value = NULL THEN "missing_in_zabbix"
         ELSE IF topdesk_value = NULL THEN "missing_in_topdesk"
         ELSE "value_mismatch")

\* the difference lists of an asset of both systems: at most MaxDocDiffs fields, no
\* field twice, and never null on both sides
FieldDiffLists ==
    UNION {{ds \in [1..n -> {TypedDiff(f, z, t) :
                                f \in Fields, z \in CodecValues, t \in CodecValues}] :
              /\ \A i, j \in 1..n : ds[i].field_name = ds[j].field_name => i = j
              /\ \A i \in 1..n : ~(ds[i].zabbix_value = NULL /\ ds[i].topdesk_value = NULL)} :
           n \in 0..MaxDocDiffs}

\* the difference lists of an asset of one system: the marker, then its fields
SingleSystemLists(system) ==
    {<<Diff(SYSTEM_PRESENCE,
            IF system = "zabbix" THEN PRESENT ELSE ABSENT,
            IF system = "topdesk" THEN PRESENT ELSE ABSENT, "asset_missing")>> \o ds :
        ds \in {l \in FieldDiffLists :
                   \A i \in DOMAIN l :
                       l[i].difference_type = (IF system = "zabbix" THEN "missing_in_topdesk"
                                               ELSE "missing_in_zabbix")}}

InitCodec ==
    /\ CallsIdle
    /\ dif_request \in
           [asset_id : AssetIds,
            differences : FieldDiffLists \cup SingleSystemLists("zabbix")
                          \cup SingleSystemLists("topdesk")]
    /\ dif_text = <<>>
    /\ parsed_data = None
    /\ codec_pc = "init"
    /\ ResIdle
    /\ ValIdle
    /\ CfgIdle
    /\ CmpIdle
    /\ DifferIdle
    /\ SorterIdle
    /\ ListIdle
    /\ DocIdle

\* DifferAgent.generate_dif_file(asset_id, differences): the file it writes
GenerateDifFile ==
    /\ codec_pc = "init"
    /\ \E timestamp \in Timestamps :
        dif_text' = DifLines(generate_dif_file(dif_request.asset_id,
                                               dif_request.differences), timestamp)
    /\ codec_pc' = "written"
    /\ UNCHANGED <<dif_request, parsed_data>>
    /\ UNCHANGED <<listVars, docVars, resVars, valVars, callVars, csvVars, reportVars, cfgVars, cmpVars, inVars, runVars, sortVars>>

\* DifFileParser.parse_dif_file(filepath) on the file written
ParseDifFile ==
    /\ codec_pc = "written"
    /\ parsed_data' = parse_dif_file(dif_text)
    /\ codec_pc' = "parsed"
    /\ UNCHANGED <<dif_request, dif_text>>
    /\ UNCHANGED <<listVars, docVars, resVars, valVars, callVars, csvVars, reportVars, cfgVars, cmpVars, inVars, runVars, sortVars>>

NextCodec == GenerateDifFile \/ ParseDifFile

SpecCodec == InitCodec /\ [][NextCodec]_vars

\* the document of the request: dif_content of generate_dif_file
RequestDoc == generate_dif_file(dif_request.asset_id, dif_request.differences)

\* C3: parsing the file generate_dif_file wrote for a document reproduces the
\* asset_id of the document, its note (none when it has none) and its ordered list
\* of differences with the same field names and the same values.
C3_RoundTrip ==
    codec_pc = "parsed" =>
        /\ parsed_data.asset_id = Str(Chars(RequestDoc.asset_id))
        /\ parsed_data.note = (IF RequestDoc.note = NoNote THEN None
                               ELSE Str(Chars(RequestDoc.note)))
        /\ Len(parsed_data.differences) = Len(RequestDoc.differences)
        /\ \A i \in DOMAIN RequestDoc.differences :
            parsed_data.differences[i] =
                [field_name |-> Chars(RequestDoc.differences[i].field_name),
                 zabbix_value |-> RequestDoc.differences[i].zabbix_value.s,
                 topdesk_value |-> RequestDoc.differences[i].topdesk_value.s]

\* ------------------------------------------------------------------------
\* SortingStrategy.natural_sort_key (sorter.py) and the comparison of two keys

\* the tokens of a key: an int, float('inf'), or a string (Str)
IntToken(n) == [t |-> "int", n |-> n]
InfToken == [t |-> "inf"]

RECURSIVE Runs(_)
\* re.split(r'(\d+)', text) without its empty parts: the maximal runs of digits and
\* of other characters, in order
Runs(text) ==
    IF text = <<>> THEN <<>>
    ELSE LET breaks == {k \in DOMAIN text : IsDigit(text[k]) # IsDigit(text[1])}
             n == IF breaks = {} THEN Len(text)
                  ELSE (CHOOSE k \in breaks : \A j \in breaks : k <= j) - 1
         IN <<SubSeq(text, 1, n)>> \o Runs(SubSeq(text, n + 1, Len(text)))

\* SortingStrategy.natural_sort_key(text)
natural_sort_key(text) ==
    IF text = None THEN <<InfToken, Str(<<>>)>>
    ELSE LET parts == Runs(Lower(Strip(text.s)))
         IN IF parts = <<>> THEN <<Str(<<>>)>>
            ELSE [i \in DOMAIN parts |->
                     IF IsDigit(parts[i][1]) THEN IntToken(ParseInt(parts[i]))
                     ELSE Str(parts[i])]

\* the characters of the model in the order of their code points
CodePoints ==
    <<" ", "\"", "-", ".", "0", "1", "2", "3", "4", "5", "6", "7", "8", "9", ":",
      "_", "a", "b", "c", "d", "e", "f", "g", "h", "i", "j", "k", "l", "m", "n", "o",
      "p", "q", "r", "s", "t", "u", "v", "w", "x", "y", "z">>
CodePoint(c) == CHOOSE i \in DOMAIN CodePoints : CodePoints[i] = c

RECURSIVE StrLess(_, _)
\* a < b of two Python strings
StrLess(a, b) ==
    IF b = <<>> THEN FALSE
    ELSE IF a = <<>> THEN TRUE
    ELSE IF Head(a) # Head(b) THEN CodePoint(Head(a)) < CodePoint(Head(b))
    ELSE StrLess(Tail(a), Tail(b))

\* Python's a < b of two tokens: "TypeError" between a number and a string
TokenLess(a, b) ==
    IF (a.t = "str") # (b.t = "str") THEN "TypeError"
    ELSE IF a.t = "str" THEN (IF StrLess(a.s, b.s) THEN "true" ELSE "false")
    ELSE IF b.t = "inf" THEN (IF a.t = "inf" THEN "false" ELSE "true")
    ELSE IF a.t = "inf" THEN "false"
    ELSE IF a.n < b.n THEN "true" ELSE "false"

\* what a comparison did: "less", "equal", "greater", or "TypeError" when it raised
Outcome(outcome) == [t |-> "outcome", outcome |-> outcome]

\* Python's comparison of two lists: the first pair of unequal elements decides, and
\* without one the shorter list is the smaller
KeyOrder(a_key, b_key) ==
    LET common == 1..(IF Len(a_key) < Len(b_key) THEN Len(a_key) ELSE Len(b_key))
        unequal == {i \in common : a_key[i] # b_key[i]}
        first == CHOOSE i \in unequal : \A j \in unequal : i <= j
    IN IF unequal = {}
       THEN (IF Len(a_key) < Len(b_key) THEN "less"
             ELSE IF Len(a_key) > Len(b_key) THEN "greater" ELSE "equal")
       ELSE IF TokenLess(a_key[first], b_key[first]) = "TypeError" THEN "TypeError"
       ELSE IF TokenLess(a_key[first], b_key[first]) = "true" THEN "less"
       ELSE "greater"

\* ------------------------------------------------------------------------
\* SpecKeys: the keys of two identifiers are computed and compared

\* the identifiers of the model
SortIds ==
    {Str(<<"a", "s", "s", "e", "t", "2">>),
     Str(<<"a", "s", "s", "e", "t", "1", "0">>),
     Str(<<"a", "s", "s", "e", "t", "1", "0", "0">>),
     Str(<<"s", "r", "v", "1">>),
     Str(<<"s", "r", "v", "2">>),
     Str(<<"s", "r", "v", "1", "0">>),
     Str(<<"A", "s", "s", "e", "t", "2">>),
     Str(<<" ", "s", "r", "v", "1">>),
     Str(<<"1", "0">>),
     Str(<<"1", "a">>),
     Str(<<"a", "1">>),
     Str(<<>>),
     None}

InitKeys ==
    /\ CallsIdle
    /\ sort_a \in SortIds
    /\ sort_b \in SortIds
    /\ key_a = None
    /\ key_b = None
    /\ key_order = None
    /\ ResIdle
    /\ ValIdle
    /\ CfgIdle
    /\ CmpIdle
    /\ DifferIdle
    /\ CodecIdle
    /\ ListIdle
    /\ DocIdle

\* SortingStrategy.natural_sort_key, called for both identifiers
NaturalSortKey ==
    /\ key_a = None
    /\ key_a' = List(natural_sort_key(sort_a))
    /\ key_b' = List(natural_sort_key(sort_b))
    /\ UNCHANGED <<sort_a, sort_b, key_order>>
    /\ UNCHANGED <<listVars, docVars, resVars, valVars, callVars, csvVars, reportVars, cfgVars, cmpVars, inVars, runVars, codecVars>>

\* a_key < b_key / a_key > b_key of the two keys
CompareKeys ==
    /\ key_a # None
    /\ key_order = None
    /\ key_order' = Outcome(KeyOrder(key_a.items, key_b.items))
    /\ UNCHANGED <<sort_a, sort_b, key_a, key_b>>
    /\ UNCHANGED <<listVars, docVars, resVars, valVars, callVars, csvVars, reportVars, cfgVars, cmpVars, inVars, runVars, codecVars>>

NextKeys == NaturalSortKey \/ CompareKeys

SpecKeys == InitKeys /\ [][NextKeys]_vars

\* C10: the keys of any two identifiers that are not null are comparable (the
\* comparison never raises), and asset2 < asset10 < asset100 and srv1 < srv2 < srv10.
C10_NaturalKeyTotalOrder ==
    (key_order # None /\ sort_a # None /\ sort_b # None) =>
        /\ key_order.outcome \in {"less", "equal", "greater"}
        /\ (sort_a = Str(<<"a", "s", "s", "e", "t", "2">>) /\ sort_b = Str(<<"a", "s", "s", "e", "t", "1", "0">>)) => key_order.outcome = "less"
        /\ (sort_a = Str(<<"a", "s", "s", "e", "t", "1", "0">>) /\ sort_b = Str(<<"a", "s", "s", "e", "t", "1", "0", "0">>)) => key_order.outcome = "less"
        /\ (sort_a = Str(<<"a", "s", "s", "e", "t", "2">>) /\ sort_b = Str(<<"a", "s", "s", "e", "t", "1", "0", "0">>)) => key_order.outcome = "less"
        /\ (sort_a = Str(<<"s", "r", "v", "1">>) /\ sort_b = Str(<<"s", "r", "v", "2">>)) => key_order.outcome = "less"
        /\ (sort_a = Str(<<"s", "r", "v", "2">>) /\ sort_b = Str(<<"s", "r", "v", "1", "0">>)) => key_order.outcome = "less"
        /\ (sort_a = Str(<<"s", "r", "v", "1", "0">>) /\ sort_b = Str(<<"s", "r", "v", "1">>)) => key_order.outcome = "greater"

\* ------------------------------------------------------------------------
\* SortingStrategy: the sorting of lists of records (sorter.py)

\* a dict is the sequence of its <<key, value>> items in insertion order
HasKey(d, key) == \E i \in DOMAIN d : d[i][1] = key
\* dict.get(key, default)
DictGet(d, key, default) ==
    IF HasKey(d, key) THEN d[CHOOSE i \in DOMAIN d : d[i][1] = key][2] ELSE default

\* the keys and the default values the Sorter uses
ASSET_ID == Str(<<"a", "s", "s", "e", "t", "_", "i", "d">>)
OPERATION == Str(<<"o", "p", "e", "r", "a", "t", "i", "o", "n">>)
FIELD == Str(<<"f", "i", "e", "l", "d">>)
TIMESTAMP == Str(<<"t", "i", "m", "e", "s", "t", "a", "m", "p">>)
SEQUENCE == Str(<<"s", "e", "q", "u", "e", "n", "c", "e">>)
EMPTY == Str(<<>>)
MODIFY == Str(<<"m", "o", "d", "i", "f", "y">>)
NO_TIMESTAMP == Str(<<"9", "9", "9", "9", "-", "9", "9", "-", "9", "9">>)
NoSequence == 999999

\* what a call raised
Raised(error) == [t |-> "raised", error |-> error]

\* not value: None, the empty string, 0 and False are false
Falsy(value) ==
    \/ value = None
    \/ value = EMPTY
    \/ (value.t = "num" /\ value.n = 0)
    \/ value = Bool(FALSE)

\* the comparison of asset_id_comparator for two ids: "less" is -1, "equal" 0,
\* "greater" 1, and "TypeError" the exception of the comparison of the keys
CompareIds(a_id, b_id) ==
    IF Falsy(a_id) /\ Falsy(b_id) THEN "equal"
    ELSE IF Falsy(a_id) THEN "greater"
    ELSE IF Falsy(b_id) THEN "less"
    ELSE KeyOrder(natural_sort_key(a_id), natural_sort_key(b_id))

\* SortingStrategy.asset_id_comparator(a, b)
asset_id_comparator(a, b) ==
    CompareIds(DictGet(a, ASSET_ID, EMPTY), DictGet(b, ASSET_ID, EMPTY))

\* a sort that is not stable: x is put in front of its ties
InsertBeforeTies(order, x, outcomes, descending) ==
    LET before == {k \in DOMAIN order :
                      outcomes[<<order[k], x>>] = (IF descending THEN "greater" ELSE "less")}
    IN SubSeq(order, 1, Cardinality(before)) \o <<x>>
       \o SubSeq(order, Cardinality(before) + 1, Len(order))

\* the place sorted() gives to the element x among the elements it has placed:
\* behind every element that is not after x, so behind its ties; outcomes[<<i, j>>]
\* is the comparison of the elements i and j of the list
Insert(order, x, outcomes, descending) ==
    LET before == {k \in DOMAIN order :
                      outcomes[<<order[k], x>>] # (IF descending THEN "less" ELSE "greater")}
    IN SubSeq(order, 1, Cardinality(before)) \o <<x>>
       \o SubSeq(order, Cardinality(before) + 1, Len(order))

RECURSIVE SortedOrder(_, _, _)
\* sorted(list, reverse=descending) of a list of n elements that are all comparable:
\* the indices of the list in sorted order; the sort is stable in both directions
SortedOrder(n, outcomes, descending) ==
    IF n = 0 THEN <<>>
    ELSE Insert(SortedOrder(n - 1, outcomes, descending), n, outcomes, descending)

\* sorted() raises when a comparison it makes raises; every sort has to compare two
\* elements of which the comparison raises, because no other comparison orders them
SortRaises(n, outcomes) ==
    \E i, j \in 1..n : outcomes[<<i, j>>] = "TypeError"

\* the list with its elements in the order of the indices
Arrange(list, order) == [k \in DOMAIN order |-> list[order[k]]]

\* SortingStrategy.FIELD_PRIORITY.get(name, 50)
FieldPriority(name) ==
      CASE name = <<"a", "s", "s", "e", "t", "_", "i", "d">> -> 1
        [] name = <<"i", "p", "_", "a", "d", "d", "r", "e", "s", "s">> -> 2
        [] name = <<"h", "o", "s", "t", "n", "a", "m", "e">> -> 3
        [] name = <<"s", "e", "r", "i", "a", "l", "_", "n", "u", "m", "b", "e", "r">> -> 4
        [] name = <<"m", "o", "d", "e", "l">> -> 5
        [] name = <<"m", "a", "n", "u", "f", "a", "c", "t", "u", "r", "e", "r">> -> 6
        [] name = <<"l", "o", "c", "a", "t", "i", "o", "n">> -> 7
        [] name = <<"d", "e", "p", "a", "r", "t", "m", "e", "n", "t">> -> 8
        [] name = <<"s", "t", "a", "t", "u", "s">> -> 9
        [] name = <<"l", "a", "s", "t", "_", "u", "p", "d", "a", "t", "e", "d">> -> 90
        [] name = <<"c", "r", "e", "a", "t", "e", "d", "_", "d", "a", "t", "e">> -> 91
        [] name = <<"n", "o", "t", "e", "s">> -> 99
        [] OTHER -> 50

\* CompareFieldKeys without the priority table: the lower-cased names alone
CompareFieldNames(a_priority, a_name, b_priority, b_name) ==
    IF a_name = b_name THEN "equal"
    ELSE IF StrLess(a_name, b_name) THEN "less" ELSE "greater"

\* field_sort_key(a) against field_sort_key(b): (priority, field.lower())
CompareFieldKeys(a_priority, a_name, b_priority, b_name) ==
    IF a_priority # b_priority
    THEN (IF a_priority < b_priority THEN "less" ELSE "greater")
    ELSE IF a_name = b_name THEN "equal"
    ELSE IF StrLess(a_name, b_name) THEN "less" ELSE "greater"

\* the comparisons of the fields of an asset whose keys are strings
FieldOutcomes(asset) ==
    [p \in (DOMAIN asset) \X (DOMAIN asset) |->
        CompareFieldKeys(FieldPriority(Lower(asset[p[1]][1].s)), Lower(asset[p[1]][1].s),
                         FieldPriority(Lower(asset[p[2]][1].s)), Lower(asset[p[2]][1].s))]

\* SortingStrategy.sort_asset_fields(asset) of a dict: the dict after the call, and
\* whether field.lower() raised AttributeError (a key that is not a string) before
\* the dict was touched
sort_asset_fields(asset) ==
    IF \E i \in DOMAIN asset : asset[i][1].t # "str"
    THEN [raised |-> TRUE, asset |-> asset]
    ELSE [raised |-> FALSE,
          asset |-> Arrange(asset, SortedOrder(Len(asset), FieldOutcomes(asset), FALSE))]

\* one step of the loop of sort_assets over sorted_assets
SortFieldsStep(state, sorted_one, index) ==
    IF state.raised \/ sorted_one.raised THEN [state EXCEPT !.raised = TRUE]
    ELSE [state EXCEPT !.records[index] = sorted_one.asset]

RECURSIVE SortFieldsLoop(_, _)
\* the loop of sort_assets over sorted_assets: the records of the list (by their
\* index in the list given) after the loop, and whether the loop raised
SortFieldsLoop(state, order) ==
    IF order = <<>> THEN state
    ELSE SortFieldsLoop(
             SortFieldsStep(state, sort_asset_fields(state.records[Head(order)]),
                            Head(order)),
             Tail(order))

\* the comparisons of the records of a list under asset_id_comparator
AssetOutcomes(list) ==
    [p \in (DOMAIN list) \X (DOMAIN list) |-> asset_id_comparator(list[p[1]], list[p[2]])]

\* the end of sort_assets: the list returned and the records of the caller's list
SortAssetsDone(loop, order) ==
    [result |-> IF loop.raised THEN loop.records ELSE Arrange(loop.records, order),
     assets |-> loop.records]

\* the try block of sort_assets once the asset ids are compared
SortAssetsTry(list, order) ==
    SortAssetsDone(SortFieldsLoop([records |-> list, raised |-> FALSE], order), order)

\* SortingStrategy.sort_assets(assets, reverse): the list returned, and the caller's
\* list after the call (its records are changed in place)
sort_assets(list, descending) ==
    IF SortRaises(Len(list), AssetOutcomes(list))
    THEN [result |-> list, assets |-> list]
    ELSE SortAssetsTry(list, SortedOrder(Len(list), AssetOutcomes(list), descending))

\* the comparison of two tuples of three elements of which the comparisons are
\* first, second and third: the first elements that are not equal decide
CompareTriples(first, second, third) ==
    IF first # "equal" THEN first ELSE IF second # "equal" THEN second ELSE third

\* a < b of two ints, and of two strings
CompareInts(a, b) == IF a = b THEN "equal" ELSE IF a < b THEN "less" ELSE "greater"
CompareStrs(a, b) == IF a = b THEN "equal" ELSE IF StrLess(a, b) THEN "less" ELSE "greater"

\* op_order.get(operation, 99)
OpOrder(operation) ==
    CASE operation = Str(<<"a", "d", "d">>) -> 1
      [] operation = MODIFY -> 2
      [] operation = Str(<<"d", "e", "l", "e", "t", "e">>) -> 3
      [] OTHER -> 99

\* dif_sort_key(a) against dif_sort_key(b)
CompareDifKeys(a, b) ==
    CompareTriples(
        KeyOrder(natural_sort_key(DictGet(a, ASSET_ID, EMPTY)),
                 natural_sort_key(DictGet(b, ASSET_ID, EMPTY))),
        CompareInts(OpOrder(DictGet(a, OPERATION, MODIFY)),
                    OpOrder(DictGet(b, OPERATION, MODIFY))),
        CompareStrs(Lower(DictGet(a, FIELD, EMPTY).s), Lower(DictGet(b, FIELD, EMPTY).s)))

DifOutcomes(entries) ==
    [p \in (DOMAIN entries) \X (DOMAIN entries) |->
        CompareDifKeys(entries[p[1]], entries[p[2]])]

\* SortingStrategy.sort_dif_entries(entries): the list returned, or the exception
sort_dif_entries(entries) ==
    IF SortRaises(Len(entries), DifOutcomes(entries)) THEN Raised("TypeError")
    ELSE List(Arrange(entries, SortedOrder(Len(entries), DifOutcomes(entries), FALSE)))

\* apl_sort_key(a) against apl_sort_key(b)
CompareAplKeys(a, b) ==
    CompareTriples(
        CompareStrs(DictGet(a, TIMESTAMP, NO_TIMESTAMP).s,
                    DictGet(b, TIMESTAMP, NO_TIMESTAMP).s),
        KeyOrder(natural_sort_key(DictGet(a, ASSET_ID, EMPTY)),
                 natural_sort_key(DictGet(b, ASSET_ID, EMPTY))),
        CompareInts(DictGet(a, SEQUENCE, Num(NoSequence)).n,
                    DictGet(b, SEQUENCE, Num(NoSequence)).n))

AplOutcomes(entries) ==
    [p \in (DOMAIN entries) \X (DOMAIN entries) |->
        CompareAplKeys(entries[p[1]], entries[p[2]])]

\* SortingStrategy.sort_apl_entries(entries): the list returned, or the exception
sort_apl_entries(entries) ==
    IF SortRaises(Len(entries), AplOutcomes(entries)) THEN Raised("TypeError")
    ELSE List(Arrange(entries, SortedOrder(Len(entries), AplOutcomes(entries), FALSE)))

\* the body of the loop of validate_sort_order for two neighbours: "ok" to go on,
\* "violation" for return False, "TypeError" when prev_key > curr_key raises
CheckNeighbours(prev_val, curr_val) ==
    IF prev_val = None /\ curr_val # None THEN "violation"
    ELSE IF prev_val = None \/ curr_val = None THEN "ok"
    ELSE CASE KeyOrder(natural_sort_key(prev_val), natural_sort_key(curr_val)) = "greater"
                -> "violation"
           [] KeyOrder(natural_sort_key(prev_val), natural_sort_key(curr_val)) = "TypeError"
                -> "TypeError"
           [] OTHER -> "ok"

\* SortingStrategy.validate_sort_order(items): the boolean returned, or the
\* exception; the first pair of neighbours that is not "ok" decides
validate_sort_order(items) ==
    LET checks == [i \in 1..(Len(items) - 1) |->
                      CheckNeighbours(DictGet(items[i], ASSET_ID, None),
                                      DictGet(items[i + 1], ASSET_ID, None))]
        stops == {i \in DOMAIN checks : checks[i] # "ok"}
    IN IF stops = {} THEN Bool(TRUE)
       ELSE IF checks[CHOOSE i \in stops : \A j \in stops : i <= j] = "violation"
       THEN Bool(FALSE)
       ELSE Raised("TypeError")

\* ------------------------------------------------------------------------
\* SpecSorter: a list of records is sorted by one Sorter operation, or validated

\* the records a list holds at most
MaxAssets == 3

\* the key of the payload that tells the records of a list apart, and a key that
\* is not a string
PAYLOAD == Str(<<"n">>)
INT_KEY == Num(5000)

\* the asset ids of the records
ListIds ==
    {None, EMPTY, Str(<<"a", "s", "s", "e", "t", "2">>), Str(<<"a", "s", "s", "e", "t", "1", "0">>), Str(<<"A", "s", "s", "e", "t", "2">>), Str(<<"1", "a">>)}

\* the records the element k of a list may be: an id in front of the payload, no
\* asset_id at all, the payload in front of the id, and a record with a key that
\* is not a string
RecordShapes(k) ==
    {<<<<ASSET_ID, id>>, <<PAYLOAD, Num(k)>>>> : id \in ListIds}
    \cup {<<<<PAYLOAD, Num(k)>>>>,
          <<<<PAYLOAD, Num(k)>>, <<ASSET_ID, Str(<<"a", "s", "s", "e", "t", "2">>)>>>>,
          <<<<PAYLOAD, Num(k)>>, <<INT_KEY, EMPTY>>, <<ASSET_ID, Str(<<"a", "s", "s", "e", "t", "1", "0">>)>>>>}

\* the lists of at most MaxAssets records
RecordLists ==
    UNION {{list \in [1..n -> UNION {RecordShapes(k) : k \in 1..n}] :
               \A k \in 1..n : list[k] \in RecordShapes(k)} : n \in 0..MaxAssets}

InitSorter ==
    /\ CallsIdle
    /\ assets \in RecordLists
    /\ sort_input = assets
    /\ reverse \in BOOLEAN
    /\ sort_op = "none"
    /\ sort_result = None
    /\ order_valid = None
    /\ ResIdle
    /\ ValIdle
    /\ CfgIdle
    /\ CmpIdle
    /\ DifferIdle
    /\ CodecIdle
    /\ SorterIdle
    /\ DocIdle

\* the caller's list and the list returned after sort_assets
SortedAssets(done) ==
    /\ assets' = done.assets
    /\ sort_result' = List(done.result)

\* SortingStrategy.sort_assets(assets, reverse)
SortAssets ==
    /\ sort_op = "none"
    /\ SortedAssets(sort_assets(assets, reverse))
    /\ sort_op' = "sort_assets"
    /\ UNCHANGED <<sort_input, reverse, order_valid>>
    /\ UNCHANGED <<resVars, valVars, callVars, csvVars, reportVars, cfgVars, cmpVars, inVars, runVars, codecVars,
                   sortVars, docVars>>

\* SortingStrategy.sort_dif_entries(entries)
SortDifEntries ==
    /\ sort_op = "none"
    /\ sort_result' = sort_dif_entries(assets)
    /\ sort_op' = "sort_dif_entries"
    /\ UNCHANGED <<assets, sort_input, reverse, order_valid>>
    /\ UNCHANGED <<resVars, valVars, callVars, csvVars, reportVars, cfgVars, cmpVars, inVars, runVars, codecVars,
                   sortVars, docVars>>

\* SortingStrategy.sort_apl_entries(entries)
SortAplEntries ==
    /\ sort_op = "none"
    /\ sort_result' = sort_apl_entries(assets)
    /\ sort_op' = "sort_apl_entries"
    /\ UNCHANGED <<assets, sort_input, reverse, order_valid>>
    /\ UNCHANGED <<resVars, valVars, callVars, csvVars, reportVars, cfgVars, cmpVars, inVars, runVars, codecVars,
                   sortVars, docVars>>

\* SortingStrategy.validate_sort_order(items) on the list sort_assets returned
ValidateSorted ==
    /\ sort_op = "sort_assets"
    /\ order_valid = None
    /\ order_valid' = validate_sort_order(sort_result.items)
    /\ UNCHANGED <<assets, sort_input, reverse, sort_op, sort_result>>
    /\ UNCHANGED <<resVars, valVars, callVars, csvVars, reportVars, cfgVars, cmpVars, inVars, runVars, codecVars,
                   sortVars, docVars>>

\* SortingStrategy.validate_sort_order(items) on a list as the caller built it
ValidateList ==
    /\ sort_op = "none"
    /\ order_valid' = validate_sort_order(assets)
    /\ sort_op' = "validate_sort_order"
    /\ UNCHANGED <<assets, sort_input, reverse, sort_result>>
    /\ UNCHANGED <<resVars, valVars, callVars, csvVars, reportVars, cfgVars, cmpVars, inVars, runVars, codecVars,
                   sortVars, docVars>>

NextSorter ==
    SortAssets \/ SortDifEntries \/ SortAplEntries \/ ValidateSorted \/ ValidateList

SpecSorter == InitSorter /\ [][NextSorter]_vars

\* ------------------------------------------------------------------------
\* Properties of the sorting of lists

\* the payload of a record, and the place in a list of the record with a payload
PayloadOf(record) == DictGet(record, PAYLOAD, None).n
PositionOf(list, k) == CHOOSE p \in DOMAIN list : PayloadOf(list[p]) = k

\* the items of a record, whatever their order
Items(record) == {record[i] : i \in DOMAIN record}

\* the asset id of a record is None, empty or missing
FalsyId(record) == Falsy(DictGet(record, ASSET_ID, EMPTY))

C12_EmptyIdsLast ==
    (/\ \/ (sort_op = "sort_assets" /\ ~reverse)
        \/ sort_op = "sort_dif_entries"
     /\ sort_result.t = "list")
        => \A p, q \in DOMAIN sort_result.items :
               p < q => ~(FalsyId(sort_result.items[p]) /\ ~FalsyId(sort_result.items[q]))

\* C13: validate_sort_order returns True for every list sort_assets (ascending)
\* returned, and False for a list that holds a record with the asset_id asset10 in
\* front of a record with the asset_id asset2
C13_ValidateSortOrder ==
    /\ (sort_op = "sort_assets" /\ ~reverse /\ order_valid # None)
           => order_valid = Bool(TRUE)
    /\ (/\ sort_op = "validate_sort_order"
        /\ \E i, j \in DOMAIN assets :
               /\ i < j
               /\ DictGet(assets[i], ASSET_ID, None) = Str(<<"a", "s", "s", "e", "t", "1", "0">>)
               /\ DictGet(assets[j], ASSET_ID, None) = Str(<<"a", "s", "s", "e", "t", "2">>))
           => order_valid = Bool(FALSE)

\* the sorting of the list by sort_assets fails: a comparison of two asset ids
\* raises, or the sorting of the fields of a record does
SortAssetsFails(list) ==
    \/ SortRaises(Len(list), AssetOutcomes(list))
    \/ \E k \in DOMAIN list : sort_asset_fields(list[k]).raised

\* C14: sort_assets, sort_dif_entries and sort_apl_entries do not raise when the
\* sorting fails: they return the list they were given in the order it had, and
\* the records of the list are as they were before the call
C14_FailedSortReturnsInput ==
    /\ sort_op \in {"sort_assets", "sort_dif_entries", "sort_apl_entries"}
           => /\ sort_result.t = "list"
              /\ Len(sort_result.items) = Len(sort_input)
    /\ (sort_op = "sort_assets" /\ SortAssetsFails(sort_input))
           => /\ sort_result.items = sort_input
              /\ assets = sort_input

\* C15: two runs of process_comparison on the same maps write, for every asset, the
\* same document: the run that follows a run of process_comparison leaves every
\* document of the output directory (asset_id, note, differences in their order)
\* as the run before wrote it
C15_RunsDeterministic ==
    [][(last_run = "process_comparison" /\ last_run' = "process_comparison")
           => dif_files' = dif_files]_vars

\* ------------------------------------------------------------------------
\* MergerValidator: the validation of documents and of lists of assets
\* (validator.py). A document is the content of a file: a JSON value, text that
\* is not JSON, or no file. A JSON object is a function of its keys, a list is
\* List(items), the other values are None, Str and Num.

NoFile == [t |-> "missing"]
NotJson == [t |-> "invalid"]
Json(data) == [t |-> "json", data |-> data]

RECURSIVE Text(_)
\* the characters of a string as the text of a message
Text(chars) == IF chars = <<>> THEN "" ELSE Head(chars) \o Text(Tail(chars))

\* str(value) in an f-string
Format(v) ==
    CASE v.t = "str" -> Text(v.s)
      [] v.t = "num" -> ToString(v.n \div Scale)
      [] OTHER -> "None"

\* what a block of a validation method leaves: the result as it is now, and whether
\* an exception ended the block
Went(r) == [r |-> r, raised |-> FALSE]
Broke(r) == [r |-> r, raised |-> TRUE]

\* len(value) and the iteration over value succeed for a list; for None and a
\* number they raise TypeError
IsList(v) == "t" \in DOMAIN v /\ v.t = "list"

VALID_DIF_OPERATIONS == {Str(<<"a", "d", "d">>), Str(<<"m", "o", "d", "i", "f", "y">>), Str(<<"d", "e", "l", "e", "t", "e">>), Str(<<"c", "r", "e", "a", "t", "e">>)}
VALID_APL_STATUS == {Str(<<"a", "p", "p", "l", "i", "e", "d">>), Str(<<"f", "a", "i", "l", "e", "d">>), Str(<<"s", "k", "i", "p", "p", "e", "d">>), Str(<<"p", "e", "n", "d", "i", "n", "g">>)}
REQUIRED_ASSET_FIELDS == {"asset_id"}
EXPECTED_ASSET_FIELDS ==
    {"asset_id", "hostname", "ip_address", "serial_number", "model", "manufacturer",
     "location", "department", "status", "notes", "last_updated"}
CREATE == Str(<<"c", "r", "e", "a", "t", "e">>)
DELETE == Str(<<"d", "e", "l", "e", "t", "e">>)

\* the text of the year, month and day of a date YYYY-MM-DD is a date
IsDate(chars) ==
    /\ Len(chars) = 10
    /\ chars[5] = "-" /\ chars[8] = "-"
    /\ \A k \in {1, 2, 3, 4, 6, 7, 9, 10} : IsDigit(chars[k])
    /\ ParseInt(SubSeq(chars, 1, 4)) >= 1
    /\ ParseInt(SubSeq(chars, 6, 7)) \in 1..12
    /\ ParseInt(SubSeq(chars, 9, 10)) \in 1..28

\* MergerValidator._validate_timestamp(timestamp, result, context): replace() of a
\* value that is not a string raises AttributeError, which the method does not
\* catch; the timestamps of the model are dates and texts that are no timestamps
validate_timestamp(r, timestamp, context) ==
    IF timestamp.t # "str" THEN Broke(r)
    ELSE IF IsDate(timestamp.s)
    THEN Went(add_check(r, TRUE, IF context = "" THEN "Timestamp valid"
                                 ELSE context \o " timestamp valid"))
    ELSE Went(add_error(r, (IF context = "" THEN "" ELSE context \o " ")
                           \o "Invalid timestamp format: " \o Text(timestamp.s),
                        FALSE))

\* ---- _validate_dif_entries

\* the check of the operation of an entry
DifOperation(r, entry, i) ==
    IF "operation" \in DOMAIN entry /\ entry.operation \notin VALID_DIF_OPERATIONS
    THEN add_error(r, "Entry " \o ToString(i) \o ": Invalid operation '"
                      \o Format(entry.operation) \o "'", FALSE)
    ELSE r

\* the check of the field modifications of an entry
DifModify(r, entry, i) ==
    IF /\ "field" \in DOMAIN entry
       /\ "operation" \in DOMAIN entry
       /\ entry.operation = Str(<<"m", "o", "d", "i", "f", "y">>)
       /\ ("old_value" \notin DOMAIN entry \/ "new_value" \notin DOMAIN entry)
    THEN add_warning(r, "Entry " \o ToString(i)
                        \o ": Modify operation missing old/new values")
    ELSE r

\* the check of the value of an entry
DifValue(r, entry, i) ==
    IF "value" \in DOMAIN entry /\ entry.value = None
    THEN add_warning(r, "Entry " \o ToString(i) \o ": Null value for "
                        \o (IF "field" \in DOMAIN entry THEN Format(entry.field)
                            ELSE "unknown field"))
    ELSE r

\* the body of the loop of _validate_dif_entries for the entry i (counted from 0):
\* 'asset_id' not in entry raises TypeError for an entry that is None or a number
DifEntry(r, entry, i) ==
    IF ~IsDict(entry) THEN Broke(r)
    ELSE IF "asset_id" \notin DOMAIN entry
    THEN Went(add_error(r, "Entry " \o ToString(i) \o ": Missing asset_id", FALSE))
    ELSE Went(DifValue(DifModify(DifOperation(r, entry, i), entry, i), entry, i))

RECURSIVE DifEntryLoop(_, _, _)
\* the loop of _validate_dif_entries from the entry at position k on
DifEntryLoop(state, entries, k) ==
    IF state.raised \/ k > Len(entries) THEN state
    ELSE DifEntryLoop(DifEntry(state.r, entries[k], k - 1), entries, k + 1)

\* the entries that asset_operations counts: a mapping with asset_id and operation
HasOperation(entry) == "asset_id" \in DOMAIN entry /\ "operation" \in DOMAIN entry

RECURSIVE OperationsOf(_, _)
\* asset_operations[asset_id]: the operations of the entries of the asset, in order
OperationsOf(entries, asset_id) ==
    IF entries = <<>> THEN <<>>
    ELSE (IF HasOperation(Head(entries)) /\ Head(entries).asset_id = asset_id
          THEN <<Head(entries).operation>> ELSE <<>>)
         \o OperationsOf(Tail(entries), asset_id)

RECURSIVE OperationKeys(_, _)
\* the keys of asset_operations in the order of insertion
OperationKeys(entries, seen) ==
    IF entries = <<>> THEN <<>>
    ELSE IF HasOperation(Head(entries)) /\ Head(entries).asset_id \notin seen
    THEN <<Head(entries).asset_id>>
         \o OperationKeys(Tail(entries), seen \cup {Head(entries).asset_id})
    ELSE OperationKeys(Tail(entries), seen)

\* ops.count(operation)
CountOf(ops, operation) == Cardinality({k \in DOMAIN ops : ops[k] = operation})

\* the checks of the operations of one asset
DifDelete(r, asset_id, ops) ==
    IF CountOf(ops, DELETE) > 0 /\ Len(ops) > 1
    THEN add_warning(r, "Asset " \o Format(asset_id)
                        \o ": Delete operation with other operations")
    ELSE r

DifCreate(r, asset_id, ops) ==
    IF CountOf(ops, CREATE) > 1
    THEN add_error(r, "Asset " \o Format(asset_id) \o ": Multiple create operations",
                   FALSE)
    ELSE r

RECURSIVE DifConflicts(_, _, _)
\* the loop of _validate_dif_entries over asset_operations.items()
DifConflicts(r, entries, keys) ==
    IF keys = <<>> THEN r
    ELSE DifConflicts(
             DifCreate(DifDelete(r, Head(keys), OperationsOf(entries, Head(keys))),
                       Head(keys), OperationsOf(entries, Head(keys))),
             entries, Tail(keys))

\* add_check(len(result.errors) == 0, message)
CheckNoErrors(r, message) == add_check(r, r.errors = <<>>, message)

\* the part of _validate_dif_entries behind the loop over the entries
DifEntriesEnd(state, entries) ==
    IF state.raised THEN state
    ELSE Went(CheckNoErrors(DifConflicts(state.r, entries, OperationKeys(entries, {})),
                            "DIF entries validation"))

\* MergerValidator._validate_dif_entries(entries, result)
validate_dif_entries(entries, r) ==
    DifEntriesEnd(DifEntryLoop(Went(r), entries, 1), entries)

\* ---- _validate_assets

\* the loop of _validate_assets over REQUIRED_ASSET_FIELDS (one field)
AssetRequired(r, asset, i) ==
    IF "asset_id" \notin DOMAIN asset \/ asset.asset_id = None
    THEN add_error(r, "Asset " \o ToString(i) \o ": Missing required field 'asset_id'",
                   FALSE)
    ELSE r

\* seen_ids in front of the asset at position k
SeenIds(asset_list, k) ==
    {asset_list[j].asset_id : j \in {x \in 1..(k - 1) : "asset_id" \in DOMAIN asset_list[x]}}

\* duplicate_ids behind the loop
DuplicateIds(asset_list) ==
    {asset_list[k].asset_id :
        k \in {x \in DOMAIN asset_list : /\ "asset_id" \in DOMAIN asset_list[x]
                                     /\ asset_list[x].asset_id \in SeenIds(asset_list, x)}}

\* the check for duplicate ids of the asset at position k
AssetDuplicate(r, asset_list, k) ==
    IF "asset_id" \in DOMAIN asset_list[k] /\ asset_list[k].asset_id \in SeenIds(asset_list, k)
    THEN add_error(r, "Duplicate asset_id: " \o Format(asset_list[k].asset_id), FALSE)
    ELSE r

RECURSIVE SplitOn(_, _)
\* str.split(sep) for a separator of one character
SplitOn(chars, sep) ==
    IF \E k \in DOMAIN chars : chars[k] = sep
    THEN <<SubSeq(chars, 1, (CHOOSE k \in DOMAIN chars :
                                chars[k] = sep /\ \A j \in 1..(k - 1) : chars[j] # sep) - 1)>>
         \o SplitOn(SubSeq(chars, (CHOOSE k \in DOMAIN chars :
                                chars[k] = sep /\ \A j \in 1..(k - 1) : chars[j] # sep) + 1,
                           Len(chars)), sep)
    ELSE <<chars>>

\* 0 <= int(part) <= 255, False when int() raises ValueError (the parts of the
\* model hold digits and letters only)
IsOctet(part) ==
    /\ part # <<>>
    /\ \A k \in DOMAIN part : IsDigit(part[k])
    /\ ParseInt(part) <= 255

\* the test of all the parts of an address
AllOctets(parts) == Len(parts) = 4 /\ \A k \in DOMAIN parts : IsOctet(parts[k])

\* MergerValidator._is_valid_ip(ip)
is_valid_ip(ip) == AllOctets(SplitOn(ip, "."))

\* the blocks of _validate_asset_fields: a truthy value that is not a string
\* raises (split, len and lower are methods of strings)
AssetIp(state, asset, i) ==
    IF state.raised \/ "ip_address" \notin DOMAIN asset \/ Falsy(asset.ip_address)
    THEN state
    ELSE IF asset.ip_address.t # "str" THEN Broke(state.r)
    ELSE IF ~is_valid_ip(asset.ip_address.s)
    THEN Went(add_warning(state.r, "Asset " \o ToString(i)
                          \o ": Invalid IP address format: " \o Text(asset.ip_address.s)))
    ELSE state

AssetSerial(state, asset, i) ==
    IF state.raised \/ "serial_number" \notin DOMAIN asset \/ Falsy(asset.serial_number)
    THEN state
    ELSE IF asset.serial_number.t # "str" THEN Broke(state.r)
    ELSE IF Len(asset.serial_number.s) > 100
    THEN Went(add_warning(state.r, "Asset " \o ToString(i)
                          \o ": Unusually long serial number"))
    ELSE state

VALID_STATUSES ==
    {<<"a", "c", "t", "i", "v", "e">>, <<"i", "n", "a", "c", "t", "i", "v", "e">>, <<"m", "a", "i", "n", "t", "e", "n", "a", "n", "c", "e">>, <<"r", "e", "t", "i", "r", "e", "d">>, <<"u", "n", "k", "n", "o", "w", "n">>}

AssetStatus(state, asset, i) ==
    IF state.raised \/ "status" \notin DOMAIN asset \/ Falsy(asset.status)
    THEN state
    ELSE IF asset.status.t # "str" THEN Broke(state.r)
    ELSE IF Lower(asset.status.s) \notin VALID_STATUSES
    THEN Went(add_warning(state.r, "Asset " \o ToString(i)
                          \o ": Unusual status value: " \o Text(asset.status.s)))
    ELSE state

\* MergerValidator._validate_asset_fields(asset, result, index)
validate_asset_fields(r, asset, i) ==
    AssetStatus(AssetSerial(AssetIp(Went(r), asset, i), asset, i), asset, i)

\* the report of the unexpected fields of an asset (the message names the fields)
AssetUnexpected(state, asset, i) ==
    IF state.raised THEN state
    ELSE IF /\ DOMAIN asset \ EXPECTED_ASSET_FIELDS # {}
            /\ Cardinality(DOMAIN asset \ EXPECTED_ASSET_FIELDS) <= 3
    THEN Went(add_info(state.r, "Asset " \o ToString(i) \o ": Unexpected fields"))
    ELSE state

\* the body of the loop of _validate_assets for the asset at position k: field not
\* in asset raises TypeError for an asset that is None or a number
AssetEntry(r, asset_list, k) ==
    IF ~IsDict(asset_list[k]) THEN Broke(r)
    ELSE AssetUnexpected(
             validate_asset_fields(
                 AssetDuplicate(AssetRequired(r, asset_list[k], k - 1), asset_list, k),
                 asset_list[k], k - 1),
             asset_list[k], k - 1)

RECURSIVE AssetLoop(_, _, _)
AssetLoop(state, asset_list, k) ==
    IF state.raised \/ k > Len(asset_list) THEN state
    ELSE AssetLoop(AssetEntry(state.r, asset_list, k), asset_list, k + 1)

\* the summary statistics and the last checks of _validate_assets
AssetSummary(r, asset_list, duplicate_ids) ==
    add_check(
        IF duplicate_ids # {}
        THEN add_error(
                 SetMetadata(SetMetadata(SetMetadata(r, "total_assets", Len(asset_list)),
                                         "unique_ids",
                                         Cardinality(SeenIds(asset_list, Len(asset_list) + 1))),
                             "duplicates", Cardinality(duplicate_ids)),
                 "Found " \o ToString(Cardinality(duplicate_ids)) \o " duplicate asset IDs",
                 FALSE)
        ELSE SetMetadata(SetMetadata(SetMetadata(r, "total_assets", Len(asset_list)),
                                     "unique_ids",
                                     Cardinality(SeenIds(asset_list, Len(asset_list) + 1))),
                         "duplicates", 0),
        duplicate_ids = {}, "Asset ID uniqueness")

AssetsEnd(state, asset_list) ==
    IF state.raised THEN state
    ELSE Went(AssetSummary(state.r, asset_list, DuplicateIds(asset_list)))

\* MergerValidator._validate_assets(assets, result): enumerate(assets) raises
\* TypeError for None and a number
validate_assets_list(asset_list, r) ==
    IF ~IsList(asset_list) THEN Broke(r)
    ELSE AssetsEnd(AssetLoop(Went(r), asset_list.items, 1), asset_list.items)

\* ---- _validate_apl_entries

AplInvalidStatus(r, entry, i) ==
    IF "status" \in DOMAIN entry /\ entry.status \notin VALID_APL_STATUS
    THEN add_error(r, "Entry " \o ToString(i) \o ": Invalid status '"
                      \o Format(entry.status) \o "'", FALSE)
    ELSE r

AplFailedStatus(r, entry, i) ==
    IF /\ "status" \in DOMAIN entry
       /\ entry.status = Str(<<"f", "a", "i", "l", "e", "d">>)
       /\ "error" \notin DOMAIN entry
    THEN add_warning(r, "Entry " \o ToString(i) \o ": Failed status without error message")
    ELSE r

\* seen_sequences in front of the entry at position k: the entries without asset_id
\* are left before their sequence is read
SeenSequences(entries, k) ==
    {entries[j].sequence :
        j \in {x \in 1..(k - 1) : /\ "asset_id" \in DOMAIN entries[x]
                                  /\ "sequence" \in DOMAIN entries[x]}}

\* a check of the sequence numbers that never remembers a number
AplSequenceForgets(r, entries, k) == r

\* the check of the sequence number of the entry at position k
AplSequence(r, entries, k) ==
    IF "sequence" \in DOMAIN entries[k] /\ entries[k].sequence \in SeenSequences(entries, k)
    THEN add_error(r, "Entry " \o ToString(k - 1) \o ": Duplicate sequence number "
                      \o Format(entries[k].sequence), FALSE)
    ELSE r

AplTimestamp(r, entry, i) ==
    IF "timestamp" \in DOMAIN entry
    THEN validate_timestamp(r, entry.timestamp, "Entry " \o ToString(i))
    ELSE Went(r)

\* not isinstance(cmd, str) or not cmd.strip()
AplCommand(state, entry, i) ==
    IF state.raised \/ "command" \notin DOMAIN entry THEN state
    ELSE IF entry.command.t # "str" \/ Strip(entry.command.s) = <<>>
    THEN Went(add_error(state.r, "Entry " \o ToString(i) \o ": Invalid command", FALSE))
    ELSE state

\* the body of the loop of _validate_apl_entries for the entry at position k
AplEntry(r, entries, k) ==
    IF ~IsDict(entries[k]) THEN Broke(r)
    ELSE IF "asset_id" \notin DOMAIN entries[k]
    THEN Went(add_error(r, "Entry " \o ToString(k - 1) \o ": Missing asset_id", FALSE))
    ELSE AplCommand(
             AplTimestamp(
                 AplSequence(
                     AplFailedStatus(AplInvalidStatus(r, entries[k], k - 1),
                                     entries[k], k - 1),
                     entries, k),
                 entries[k], k - 1),
             entries[k], k - 1)

RECURSIVE AplEntryLoop(_, _, _)
AplEntryLoop(state, entries, k) ==
    IF state.raised \/ k > Len(entries) THEN state
    ELSE AplEntryLoop(AplEntry(state.r, entries, k), entries, k + 1)

AplEntriesEnd(state) ==
    IF state.raised THEN state
    ELSE Went(CheckNoErrors(state.r, "APL entries validation"))

\* MergerValidator._validate_apl_entries(entries, result)
validate_apl_entries(entries, r) == AplEntriesEnd(AplEntryLoop(Went(r), entries, 1))

\* ---- the validation methods

\* the except clause of a validation method: an exception of the try block is a
\* critical error of the result
Caught(state, message) ==
    IF state.raised THEN add_error(state.r, message, TRUE) ELSE state.r

\* result.add_info(f"Found {len(entries)} ..."), then the checks of the entries
FoundEntries(r, entries, what) ==
    IF ~IsList(entries) THEN Broke(r)
    ELSE validate_dif_entries(
             entries.items,
             add_info(r, "Found " \o ToString(Len(entries.items)) \o what))

FoundAssets(r, asset_list) ==
    IF ~IsList(asset_list) THEN Broke(r)
    ELSE validate_assets_list(
             asset_list, add_info(r, "Found " \o ToString(Len(asset_list.items)) \o " assets"))

\* the check of the structure of validate_dif_file
DifStructure(r, data) ==
    IF IsDict(data)
    THEN IF "entries" \in DOMAIN data THEN FoundEntries(r, data.entries, " entries")
         ELSE IF "assets" \in DOMAIN data THEN FoundAssets(r, data.assets)
         ELSE Went(add_error(r, "Unknown DIF structure: missing 'entries' or 'assets'",
                             FALSE))
    ELSE IF IsList(data) THEN FoundEntries(r, data, " items")
    ELSE Went(add_error(r, "Invalid DIF structure: expected dict or list", FALSE))

\* what a validation method hands back: the result, and whether the method has
\* appended it to validation_history
Handed(r, appended) == [r |-> r, appended |-> appended]

\* MergerValidator.validate_dif_file(filepath) on a file with the content doc
validate_dif_file(doc) ==
    IF doc = NoFile
    THEN Handed(Finish(add_error(NewResult("DIF File"), "File not found", TRUE)), FALSE)
    ELSE IF doc = NotJson
    THEN Handed(Finish(add_error(NewResult("DIF File"), "Invalid JSON", TRUE)), TRUE)
    ELSE Handed(Finish(Caught(DifStructure(add_check(NewResult("DIF File"), TRUE,
                                                     "JSON structure valid"),
                                           doc.data),
                              "Validation error")), TRUE)

AplFoundEntries(r, entries, what) ==
    IF ~IsList(entries) THEN Broke(r)
    ELSE validate_apl_entries(
             entries.items,
             add_info(r, "Found " \o ToString(Len(entries.items)) \o what))

\* the blocks of validate_apl_file for an object
AplEntries(r, data) ==
    IF "entries" \in DOMAIN data THEN AplFoundEntries(r, data.entries, " entries")
    ELSE Went(r)

AplMetaTimestamp(state, data) ==
    IF state.raised \/ "timestamp" \notin DOMAIN data THEN state
    ELSE validate_timestamp(state.r, data.timestamp, "")

AplMetaUser(state, data) ==
    IF state.raised \/ "user" \notin DOMAIN data THEN state
    ELSE Went(add_info(state.r, "Applied by user: " \o Format(data.user)))

\* stats.get raises AttributeError for a summary that is no object
AplMetaSummary(state, data) ==
    IF state.raised \/ "summary" \notin DOMAIN data THEN state
    ELSE IF ~IsDict(data.summary) THEN Broke(state.r)
    ELSE Went(SetMetadata(
                  SetMetadata(
                      SetMetadata(state.r, "applied",
                                  IF "applied" \in DOMAIN data.summary
                                  THEN data.summary.applied ELSE Num(0)),
                      "failed",
                      IF "failed" \in DOMAIN data.summary
                      THEN data.summary.failed ELSE Num(0)),
                  "skipped",
                  IF "skipped" \in DOMAIN data.summary
                  THEN data.summary.skipped ELSE Num(0)))

\* the check of the structure of validate_apl_file
AplStructure(r, data) ==
    IF IsDict(data)
    THEN AplMetaSummary(AplMetaUser(AplMetaTimestamp(AplEntries(r, data), data), data),
                        data)
    ELSE IF IsList(data) THEN AplFoundEntries(r, data, " items")
    ELSE Went(add_error(r, "Invalid APL structure: expected dict or list", FALSE))

\* MergerValidator.validate_apl_file(filepath) on a file with the content doc
validate_apl_file(doc) ==
    IF doc = NoFile
    THEN Handed(Finish(add_error(NewResult("APL File"), "File not found", TRUE)), FALSE)
    ELSE IF doc = NotJson
    THEN Handed(Finish(add_error(NewResult("APL File"), "Invalid JSON", TRUE)), TRUE)
    ELSE Handed(Finish(Caught(AplStructure(add_check(NewResult("APL File"), TRUE,
                                                     "JSON structure valid"),
                                           doc.data),
                              "Validation error")), TRUE)

\* MergerValidator.validate_assets(assets)
validate_assets(asset_list) ==
    Handed(Finish(Caught(validate_assets_list(asset_list, NewResult("Assets Validation")),
                         "Validation error")), TRUE)

\* ------------------------------------------------------------------------
\* SpecDoc: documents are validated by validate_dif_file and validate_apl_file,
\* lists by validate_assets

\* the entries a list of a document holds at most
MaxEntries == 2

\* the entries of the lists: mappings, and None where a mapping is expected
EntryShapes ==
    {[asset_id |-> Str(<<"A">>), operation |-> CREATE, sequence |-> Num(1000)],
     [asset_id |-> Str(<<"A">>), operation |-> CREATE, sequence |-> Num(2000)],
     [asset_id |-> Str(<<"B">>), operation |-> Str(<<"m", "o", "d", "i", "f", "y">>), field |-> Str(<<"f">>),
      sequence |-> Num(1000), status |-> Str(<<"f", "a", "i", "l", "e", "d">>)],
     [operation |-> CREATE, sequence |-> Num(1000)],
     [asset_id |-> Str(<<"B">>), operation |-> MODIFY],
     [asset_id |-> Str(<<"A">>), operation |-> Str(<<"b", "o", "g", "u", "s">>), status |-> Str(<<"b", "o", "g", "u", "s">>)],
     [asset_id |-> Str(<<"B">>), timestamp |-> Num(5000), status |-> Num(5000)],
     [asset_id |-> Str(<<"B">>), operation |-> DELETE,
      timestamp |-> Str(<<"2", "0", "2", "4", "-", "0", "1", "-", "0", "1">>)],
     None}

\* the lists of entries
EntryLists == UNION {[1..n -> EntryShapes] : n \in 0..MaxEntries}

\* the contents of the files: no file, text that is not JSON, a value that is
\* neither an object nor a list, an object without entries, and lists of entries
\* at the top level, under 'entries' and under 'assets'
Documents ==
    {NoFile, NotJson, Json(Str(<<"x">>)), Json(Num(5000)),
     Json([user |-> Str(<<"x">>)]),
     Json([timestamp |-> Str(<<"y", "e", "s", "t", "e", "r", "d", "a", "y">>), summary |-> [applied |-> Num(1000)]]),
     Json([entries |-> None])}
    \cup {Json(List(entries)) : entries \in EntryLists}
    \cup {Json([entries |-> List(entries)]) : entries \in EntryLists}
    \cup {Json([assets |-> List(entries)]) : entries \in EntryLists}

InitDoc ==
    /\ CallsIdle
    /\ document \in Documents
    /\ validated_by = "none"
    /\ validation_history = <<>>
    /\ returned = None
    /\ ResIdle
    /\ CfgIdle
    /\ CmpIdle
    /\ DifferIdle
    /\ CodecIdle
    /\ SorterIdle
    /\ ListIdle

\* a validation method hands back handed.r, and has appended it to
\* validation_history unless it returned early
Hand(handed, method) ==
    /\ Len(validation_history) < MaxHistory
    /\ validation_history' = IF handed.appended THEN Append(validation_history, handed.r)
                             ELSE validation_history
    /\ returned' = handed.r
    /\ validated_by' = method
    /\ UNCHANGED document
    /\ UNCHANGED <<listVars, codecVars, sortVars, resVars, callVars, csvVars, reportVars, cfgVars, cmpVars, inVars,
                   runVars>>

\* MergerValidator.validate_dif_file(filepath)
ValidateDifFile == Hand(validate_dif_file(document), "validate_dif_file")

\* MergerValidator.validate_apl_file(filepath)
ValidateAplFile == Hand(validate_apl_file(document), "validate_apl_file")

\* MergerValidator.validate_assets(assets), the argument being the list, the None or
\* the number a document holds
ValidateAssets ==
    /\ document.t = "json"
    /\ "t" \in DOMAIN document.data
    /\ document.data.t \in {"list", "none", "num"}
    /\ Hand(validate_assets(document.data), "validate_assets")

NextDoc == ValidateDifFile \/ ValidateAplFile \/ ValidateAssets

SpecDoc == InitDoc /\ [][NextDoc]_vars

\* ------------------------------------------------------------------------
\* Properties of the validation of documents

\* the entries of the document: its top-level list, or the list under a key
ListOf(value) == IF IsList(value) THEN value.items ELSE <<>>

EntriesOf(doc) ==
    IF doc.t # "json" THEN <<>>
    ELSE IF ~IsDict(doc.data) THEN ListOf(doc.data)
    ELSE IF "entries" \in DOMAIN doc.data THEN ListOf(doc.data.entries)
    ELSE IF "assets" \in DOMAIN doc.data /\ validated_by # "validate_apl_file"
    THEN ListOf(doc.data.assets)
    ELSE <<>>

\* the entries at the positions j and k of the document are two entries with the
\* same sequence number
SameSequence(entries, j, k) ==
    /\ j # k
    /\ IsDict(entries[j]) /\ IsDict(entries[k])
    /\ "sequence" \in DOMAIN entries[j] /\ "sequence" \in DOMAIN entries[k]
    /\ entries[j].sequence = entries[k].sequence

\* the result holds an error, critical or not
HasError(r) == r.errors # <<>> \/ r.critical_errors # <<>>

\* C16: for a change-list document in which two entries have the same sequence
\* number, validate_apl_file records an error and returns the status FAILED
C16_DuplicateSequenceFails ==
    (/\ validated_by = "validate_apl_file"
     /\ \E j, k \in DOMAIN EntriesOf(document) : SameSequence(EntriesOf(document), j, k))
        => (returned.status = FAILED /\ HasError(returned))

\* validate_apl_file has reported the second of two entries with an asset_id and
\* the sequence number 1
C16_Witness ==
    /\ validated_by = "validate_apl_file"
    /\ \E j, k \in DOMAIN EntriesOf(document) :
           /\ SameSequence(EntriesOf(document), j, k)
           /\ "asset_id" \in DOMAIN EntriesOf(document)[j]
           /\ "asset_id" \in DOMAIN EntriesOf(document)[k]
    /\ \E m \in DOMAIN returned.errors :
           returned.errors[m] = "Entry 1: Duplicate sequence number 1"
    /\ returned.status = FAILED

\* the create operations the entries of a document hold for an asset_id
CreatesOf(entries, asset_id) ==
    {k \in DOMAIN entries : /\ IsDict(entries[k])
                            /\ "asset_id" \in DOMAIN entries[k]
                            /\ "operation" \in DOMAIN entries[k]
                            /\ entries[k].asset_id = asset_id
                            /\ entries[k].operation = CREATE}

\* C17: a document that validate_dif_file or validate_apl_file does not fail holds
\* no asset_id with more than one create operation
C17_PassedHasOneCreate ==
    (/\ validated_by \in {"validate_dif_file", "validate_apl_file"}
     /\ returned.status # FAILED)
        => \A k \in DOMAIN EntriesOf(document) :
               (IsDict(EntriesOf(document)[k]) /\ "asset_id" \in DOMAIN EntriesOf(document)[k])
                   => Cardinality(CreatesOf(EntriesOf(document),
                                            EntriesOf(document)[k].asset_id)) <= 1

\* the content is not of the shape of a container: no JSON, a value that is neither
\* an object nor a list, or an object without the entries the method reads
NoContainer(doc, method) ==
    \/ doc = NotJson
    \/ /\ doc.t = "json"
       /\ ~IsList(doc.data)
       /\ \/ ~IsDict(doc.data)
          \/ /\ "entries" \notin DOMAIN doc.data
             /\ (method = "validate_apl_file" \/ "assets" \notin DOMAIN doc.data)

\* the method has gone into the checks of the entries: it has counted them
EntryChecksRun(r) ==
    \E m \in DOMAIN r.info_messages :
        \E n \in 0..(MaxEntries + 1) :
            r.info_messages[m] \in {"Found " \o ToString(n) \o " entries",
                                    "Found " \o ToString(n) \o " items",
                                    "Found " \o ToString(n) \o " assets"}

\* C18: for a content that is not of the shape of a container, the result of
\* validate_dif_file and of validate_apl_file holds a critical error, and no check
\* of entries is run
C18_NoContainerIsCritical ==
    (/\ validated_by \in {"validate_dif_file", "validate_apl_file"}
     /\ NoContainer(document, validated_by))
        => (returned.critical_errors # <<>> /\ ~EntryChecksRun(returned))

\* the message of the entry at position k that has no asset_id
MissingId(method, k) ==
    IF method = "validate_assets"
    THEN "Asset " \o ToString(k - 1) \o ": Missing required field 'asset_id'"
    ELSE "Entry " \o ToString(k - 1) \o ": Missing asset_id"

\* the method that checks the entries of the document when method is called
EntryMethod(doc, method) ==
    IF /\ method = "validate_dif_file"
       /\ IsDict(doc.data)
       /\ "entries" \notin DOMAIN doc.data
    THEN "validate_assets" ELSE method

\* C19: a malformed entry does not keep validate_dif_file, validate_apl_file and
\* validate_assets from the other entries of the document: every entry without
\* asset_id is reported in the errors of the result, whatever the other entries are
C19_OtherEntriesValidated ==
    validated_by # "none"
        => \A k \in DOMAIN EntriesOf(document) :
               (IsDict(EntriesOf(document)[k]) /\ "asset_id" \notin DOMAIN EntriesOf(document)[k])
                   => \E m \in DOMAIN returned.errors :
                          returned.errors[m] = MissingId(EntryMethod(document, validated_by), k)

\* ------------------------------------------------------------------------
\* MergerValidator.validate_cache_integrity (validator.py). A cache directory is
\* the sequence of its cache files in the order glob() lists them; a file has a
\* name, a content (see Json), the SHA-256 digest of its bytes, and an age.

CacheDir(files) == [t |-> "dir", files |-> files]
CacheFile(name, content, sha256, old) ==
    [name |-> name, content |-> content, sha256 |-> sha256, old |-> old]

\* _verify_checksum that records the mismatch as a critical error
verify_checksum_critical(r, file, expected_checksum) ==
    IF Str(file.sha256) # expected_checksum
    THEN add_error(r, "Checksum mismatch for " \o file.name, TRUE)
    ELSE add_check(r, TRUE, "Checksum valid for " \o file.name)

\* MergerValidator._verify_checksum(filepath, expected_checksum, result)
verify_checksum(r, file, expected_checksum) ==
    IF Str(file.sha256) # expected_checksum
    THEN add_error(r, "Checksum mismatch for " \o file.name, FALSE)
    ELSE add_check(r, TRUE, "Checksum valid for " \o file.name)

\* the check of the checksum of a cache file, unless the block has raised
CacheChecksum(state, file) ==
    IF state.raised \/ "checksum" \notin DOMAIN file.content.data THEN state
    ELSE Went(verify_checksum(state.r, file, file.content.data.checksum))

\* the check of the timestamp of a cache file
CacheTimestamp(r, file) ==
    IF "timestamp" \in DOMAIN file.content.data
    THEN validate_timestamp(r, file.content.data.timestamp, file.name)
    ELSE Went(r)

\* the inner except clause: the exception is an error of the file
CacheCaught(state, file) ==
    IF state.raised
    THEN add_error(state.r, "Cannot read cache file " \o file.name, FALSE)
    ELSE state.r

\* the body of the loop of validate_cache_integrity for one cache file
CheckCacheFile(r, file) ==
    IF file.content = NotJson
    THEN add_error(r, "Corrupted cache file: " \o file.name, FALSE)
    ELSE IF ~IsDict(file.content.data)
    THEN add_check(r, TRUE, "Cache file readable: " \o file.name)
    ELSE CacheCaught(
             CacheChecksum(
                 CacheTimestamp(add_check(r, TRUE, "Cache file readable: " \o file.name),
                                file),
                 file),
             file)

RECURSIVE CacheLoop(_, _)
CacheLoop(r, files) ==
    IF files = <<>> THEN r ELSE CacheLoop(CheckCacheFile(r, Head(files)), Tail(files))

\* the names of the files older than 24 hours, in the order of the files
OldFiles(files) == SelectSeq(files, LAMBDA file : file.old)

\* MergerValidator._check_cache_age(cache_files, result)
check_cache_age(r, files) ==
    IF OldFiles(files) # <<>>
    THEN SetMetadata(
             add_warning(r, ToString(Len(OldFiles(files)))
                            \o " cache files older than 24 hours"),
             "old_cache_files",
             [k \in 1..(IF Len(OldFiles(files)) < 5 THEN Len(OldFiles(files)) ELSE 5) |->
                 OldFiles(files)[k].name])
    ELSE r

\* MergerValidator.validate_cache_integrity(cache_dir)
validate_cache_integrity(cache_dir) ==
    IF cache_dir = NoFile
    THEN Handed(Finish(add_error(NewResult("Cache Integrity Validation"),
                                 "Cache directory not found", TRUE)), FALSE)
    ELSE Handed(Finish(check_cache_age(
                    CacheLoop(add_info(NewResult("Cache Integrity Validation"),
                                       "Found " \o ToString(Len(cache_dir.files))
                                       \o " cache files"),
                              cache_dir.files),
                    cache_dir.files)), TRUE)

\* ------------------------------------------------------------------------
\* SpecCache: cache directories are validated

\* the cache files a directory holds at most
MaxCacheFiles == 2

\* the digests of the files and the checksums stored in them
Digests == {<<"d", "1">>, <<"d", "2">>}

\* the contents of the cache files
CacheContents ==
    {NotJson, Json(List(<<>>)), Json(<<>>),
     Json([timestamp |-> Num(5000), checksum |-> Str(<<"d", "1">>)]),
     Json([timestamp |-> Str(<<"y", "e", "s", "t", "e", "r", "d", "a", "y">>), checksum |-> Str(<<"d", "1">>)]),
     Json([timestamp |-> Str(<<"2", "0", "2", "4", "-", "0", "1", "-", "0", "1">>),
           checksum |-> Str(<<"d", "2">>)])}
    \cup {Json([checksum |-> Str(d)]) : d \in Digests}

\* the name of the file at position k
CacheName(k) == "f" \o ToString(k) \o ".json"

\* the directories: none, and the directories of at most MaxCacheFiles files
CacheDirs ==
    {NoFile}
    \cup UNION {{CacheDir(files) :
                    files \in {fs \in [1..n -> [name : {CacheName(k) : k \in 1..n},
                                                content : CacheContents,
                                                sha256 : {<<"d", "1">>},
                                                old : BOOLEAN]] :
                                  \A k \in 1..n : fs[k].name = CacheName(k)}} :
                n \in 0..MaxCacheFiles}

InitCache ==
    /\ CallsIdle
    /\ document \in CacheDirs
    /\ validated_by = "none"
    /\ validation_history = <<>>
    /\ returned = None
    /\ ResIdle
    /\ CfgIdle
    /\ CmpIdle
    /\ DifferIdle
    /\ CodecIdle
    /\ SorterIdle
    /\ ListIdle

\* MergerValidator.validate_cache_integrity(cache_dir)
ValidateCacheIntegrity ==
    Hand(validate_cache_integrity(document), "validate_cache_integrity")

NextCache == ValidateCacheIntegrity

SpecCache == InitCache /\ [][NextCache]_vars

\* the stored checksum of the file differs from the digest of its content
Mismatch(file) ==
    /\ file.content # NotJson
    /\ IsDict(file.content.data)
    /\ "checksum" \in DOMAIN file.content.data
    /\ file.content.data.checksum # Str(file.sha256)

\* the checks the loop counts for a file: the file is readable, its timestamp is
\* valid, its checksum is valid
ChecksOf(file) ==
    IF file.content = NotJson THEN 0
    ELSE IF ~IsDict(file.content.data) THEN 1
    ELSE 1
         + (IF /\ "timestamp" \in DOMAIN file.content.data
               /\ file.content.data.timestamp.t = "str"
               /\ IsDate(file.content.data.timestamp.s) THEN 1 ELSE 0)
         + (IF /\ "checksum" \in DOMAIN file.content.data
               /\ ~Mismatch(file)
               /\ ("timestamp" \in DOMAIN file.content.data
                      => file.content.data.timestamp.t = "str") THEN 1 ELSE 0)

RECURSIVE TotalChecks(_)
TotalChecks(files) ==
    IF files = <<>> THEN 0 ELSE ChecksOf(Head(files)) + TotalChecks(Tail(files))

\* the result holds the message among its errors
InErrors(r, message) == \E m \in DOMAIN r.errors : r.errors[m] = message

\* C20: in validate_cache_integrity a cache file of which the stored checksum
\* differs from the digest of its content has an entry in errors and none in
\* critical_errors, the status is FAILED, the call returns its result, and the other
\* cache files are checked all the same: every corrupted file is reported and every
\* check of every file is counted
C20_ChecksumMismatchIsError ==
    (/\ validated_by = "validate_cache_integrity"
     /\ document # NoFile)
        => \A k \in DOMAIN document.files :
               Mismatch(document.files[k])
                   => /\ \/ InErrors(returned, "Checksum mismatch for " \o CacheName(k))
                         \/ InErrors(returned, "Cannot read cache file " \o CacheName(k))
                      /\ returned.critical_errors = <<>>
                      /\ returned.status = FAILED
                      /\ returned.end_time = "set"
                      /\ \A j \in DOMAIN document.files :
                             document.files[j].content = NotJson
                                 => InErrors(returned,
                                             "Corrupted cache file: " \o CacheName(j))
                      /\ returned.checks_performed = TotalChecks(document.files)

\* the checksum of the first file is reported as a mismatch, and the corrupted
\* file behind it is reported too
C20_Witness ==
    /\ validated_by = "validate_cache_integrity"
    /\ document # NoFile
    /\ Len(document.files) = 2
    /\ Mismatch(document.files[1])
    /\ document.files[2].content = NotJson
    /\ returned.errors = <<"Checksum mismatch for f1.json", "Corrupted cache file: f2.json">>
    /\ returned.status = FAILED

\* ------------------------------------------------------------------------
\* Concurrent comparison runs (differ.py): process_comparison statement by
\* statement, called by several callers on one DifferAgent; a thread may be
\* switched between any two statements. SpecCalls.

\* the integer 10 ** 400: float() of it raises OverflowError
HUGE == [t |-> "int", digits |-> 401]

\* compare_values(zabbix_val, topdesk_val, field_name) raises: no value is None, and
\* float() overflows on the first value, or takes the first and overflows on the
\* second; only ValueError and TypeError are caught
CompareRaises(zabbix, topdesk) ==
    /\ zabbix # None
    /\ topdesk # None
    /\ \/ zabbix = HUGE
       \/ topdesk = HUGE /\ Float(zabbix).ok

\* _compare_matched_assets raises: compare_values is called for the fields both
\* records hold, unless excluded
MatchedRaises(zabbix_asset, topdesk_asset) ==
    \E field_name \in (DOMAIN zabbix_asset \cap DOMAIN topdesk_asset) \ excluded_fields :
        CompareRaises(zabbix_asset[field_name], topdesk_asset[field_name])

\* the body of the loop of compare_assets raises for the asset
AssetRaises(z_data, t_data, asset_id) ==
    /\ NonEmpty(GetRecord(z_data, asset_id))
    /\ NonEmpty(GetRecord(t_data, asset_id))
    /\ MatchedRaises(GetRecord(z_data, asset_id), GetRecord(t_data, asset_id))

\* a call of process_comparison(z_data, t_data) that has not run a statement yet;
\* todo is what is left of the iteration over all_asset_ids, all_differences the
\* local variable of compare_assets
NewCall(z_data, t_data) ==
    [pc |-> "called", zabbix_data |-> z_data, topdesk_data |-> t_data,
     todo |-> <<>>, all_differences |-> <<>>, outcome |-> None]

\* the callers that call the agent at the same time
MaxCallers == 2

\* the documents of the callers: Zabbix records with a numeral, Topdesk records
\* with a word or with the integer 10 ** 400
CallZabbixMaps == UNION {[present -> {[ip |-> Str(<<"8">>)]}] : present \in SUBSET AssetIds}
CallTopdeskMaps ==
    UNION {[present -> {[ip |-> Str(<<"a">>)], [ip |-> HUGE]}] : present \in SUBSET AssetIds}
NewCalls == {NewCall(z_data, t_data) : z_data \in CallZabbixMaps, t_data \in CallTopdeskMaps}

InitCalls ==
    /\ calls \in [1..MaxCallers -> NewCalls]
    /\ csv_rows = None
    /\ report = None
    /\ CfgIdle
    /\ DifferIdle
    /\ ResIdle
    /\ ValIdle
    /\ CmpIdle
    /\ CodecIdle
    /\ SorterIdle
    /\ ListIdle
    /\ DocIdle

\* what no statement of process_comparison changes
CallFrame ==
    UNCHANGED <<listVars, docVars, codecVars, sortVars, resVars, valVars, csvVars, reportVars, cfgVars, cmpVars,
                inVars, all_differences, generated_files, last_run, n_runs>>

\* process_comparison: self.stats = {...: 0}
ResetStatistics(k) ==
    /\ calls[k].pc = "called"
    /\ stats' = ZeroStats
    /\ calls' = [calls EXCEPT ![k].pc = "reset"]
    /\ UNCHANGED dif_files
    /\ CallFrame

\* compare_assets up to its loop: all_asset_ids, self.stats['total_assets_processed']
EnterLoop(k) ==
    /\ calls[k].pc = "reset"
    /\ \E asset_order \in Perms(DOMAIN calls[k].zabbix_data \cup DOMAIN calls[k].topdesk_data) :
        calls' = [calls EXCEPT ![k].pc = "loop", ![k].todo = asset_order]
    /\ stats' = [stats EXCEPT !.total_assets_processed =
                    Cardinality(DOMAIN calls[k].zabbix_data \cup DOMAIN calls[k].topdesk_data)]
    /\ UNCHANGED dif_files
    /\ CallFrame

\* the call after the loop body counted the asset asset_id into acc
Counted(call, acc) ==
    [call EXCEPT !.todo = Tail(call.todo), !.all_differences = acc.all_differences]

\* one pass of the loop of compare_assets that returns
LoopBodyReturns(k, asset_id, order) ==
    /\ stats' = Count([all_differences |-> calls[k].all_differences, stats |-> stats],
                      asset_id,
                      CompareOne(calls[k].zabbix_data, calls[k].topdesk_data,
                                 asset_id, order)).stats
    /\ calls' = [calls EXCEPT ![k] =
                    Counted(calls[k],
                            Count([all_differences |-> calls[k].all_differences,
                                   stats |-> stats],
                                  asset_id,
                                  CompareOne(calls[k].zabbix_data, calls[k].topdesk_data,
                                             asset_id, order)))]

\* one pass of the loop of compare_assets that raises: the asset was counted as
\* matched, the exception leaves compare_assets and process_comparison
LoopBodyRaises(k) ==
    /\ stats' = [stats EXCEPT !.matched_assets = @ + 1]
    /\ calls' = [calls EXCEPT ![k].pc = "raised",
                              ![k].outcome = Raised("OverflowError")]

\* one pass of the loop of compare_assets
LoopBody(k) ==
    /\ calls[k].pc = "loop"
    /\ calls[k].todo # <<>>
    /\ IF AssetRaises(calls[k].zabbix_data, calls[k].topdesk_data, Head(calls[k].todo))
       THEN LoopBodyRaises(k)
       ELSE \E order \in Perms(Fields) : LoopBodyReturns(k, Head(calls[k].todo), order)
    /\ UNCHANGED dif_files
    /\ CallFrame

\* process_comparison: the loop over all_differences.items() that writes the files
WriteDifFiles(k) ==
    /\ calls[k].pc = "loop"
    /\ calls[k].todo = <<>>
    /\ dif_files' = WriteFiles(dif_files, calls[k].all_differences)
    /\ calls' = [calls EXCEPT ![k].pc = "written"]
    /\ UNCHANGED stats
    /\ CallFrame

\* process_comparison: return generated_files, self.stats; the statistics are the
\* ones the caller reads when the call returns
ReturnStatistics(k) ==
    /\ calls[k].pc = "written"
    /\ calls' = [calls EXCEPT
           ![k].pc = "returned",
           ![k].outcome = [generated_files |-> FileNames(calls[k].all_differences),
                           stats |-> stats]]
    /\ UNCHANGED <<stats, dif_files>>
    /\ CallFrame

NextCalls ==
    \E k \in DOMAIN calls :
        \/ ResetStatistics(k)
        \/ EnterLoop(k)
        \/ LoopBody(k)
        \/ WriteDifFiles(k)
        \/ ReturnStatistics(k)

SpecCalls == InitCalls /\ [][NextCalls]_vars

\* what process_comparison returns for the documents of the call when no other
\* call runs on the agent
Alone(call, asset_order, field_orders) ==
    compare_assets(call.zabbix_data, call.topdesk_data, ZeroStats, asset_order,
                   field_orders)

\* the asset ids of the documents of the call
IdsOf(call) == DOMAIN call.zabbix_data \cup DOMAIN call.topdesk_data

\* C21: two comparison runs on different documents that are interleaved never
\* read or write a common piece of mutable state: the differences and the
\* statistics each call returns are the ones it returns when it runs alone, under
\* every interleaving, also for two calls on the same DifferAgent
C21_CallsIsolated ==
    \A k \in DOMAIN calls :
        calls[k].pc = "returned"
            => \E asset_order \in Perms(IdsOf(calls[k])),
                  field_orders \in [IdsOf(calls[k]) -> Perms(Fields)] :
                   /\ calls[k].outcome.stats = Alone(calls[k], asset_order, field_orders).stats
                   /\ calls[k].all_differences
                          = Alone(calls[k], asset_order, field_orders).all_differences

\* C22: an exception raised while comparing one asset does not abort the run: the
\* call returns, and the differences of every other asset that has differences
\* are produced and written
C22_FaultIsolated ==
    \A k \in DOMAIN calls :
        calls[k].pc \in {"returned", "raised"}
            => /\ calls[k].pc = "returned"
               /\ \A asset_id \in IdsOf(calls[k]) :
                      (/\ ~AssetRaises(calls[k].zabbix_data, calls[k].topdesk_data, asset_id)
                       /\ \E order \in Perms(Fields) :
                              CompareOne(calls[k].zabbix_data, calls[k].topdesk_data,
                                         asset_id, order).differences # <<>>)
                          => /\ \E i \in DOMAIN calls[k].all_differences :
                                    calls[k].all_differences[i].asset_id = asset_id
                             /\ asset_id \in DOMAIN dif_files

\* ------------------------------------------------------------------------
\* The Validator on the files the Comparator writes (differ.py, validator.py).
\* SpecWritten.

\* the characters of the file: its lines, each ended by a newline
RECURSIVE FileChars(_)
FileChars(lines) ==
    IF lines = <<>> THEN <<>> ELSE Head(lines) \o <<"\n">> \o FileChars(Tail(lines))

\* the characters a JSON value begins with, for the decoder of Python: an object,
\* an array, a string, a number, true, false, null, NaN, Infinity
JsonValueStarts ==
    {"{", "[", "\"", "-", "0", "1", "2", "3", "4", "5", "6", "7", "8", "9",
     "t", "f", "n", "N", "I"}

\* json.load(f) raises JSONDecodeError('Expecting value') at once: behind the
\* leading whitespace the file is empty or begins with a character that begins no
\* JSON value
ExpectingValue(lines) ==
    \/ LStrip(FileChars(lines)) = <<>>
    \/ Head(LStrip(FileChars(lines))) \notin JsonValueStarts

\* MergerValidator.validate_dif_file(filepath) on the file generate_dif_file wrote;
\* its text begins with "asset_id: ", which json.load rejects
ValidateWrittenFile ==
    /\ codec_pc = "written"
    /\ ExpectingValue(dif_text)
    /\ document' = NotJson
    /\ validation_history' =
           IF validate_dif_file(NotJson).appended
           THEN Append(validation_history, validate_dif_file(NotJson).r)
           ELSE validation_history
    /\ returned' = validate_dif_file(NotJson).r
    /\ validated_by' = "validate_dif_file"
    /\ codec_pc' = "validated"
    /\ UNCHANGED <<dif_request, dif_text, parsed_data>>
    /\ UNCHANGED <<listVars, sortVars, resVars, callVars, csvVars, reportVars, cfgVars, cmpVars, inVars, runVars>>

NextWritten == GenerateDifFile \/ ValidateWrittenFile

SpecWritten == InitCodec /\ [][NextWritten]_vars

\* C23: every difference document generate_dif_file writes is accepted as a
\* structurally valid container by validate_dif_file: validating the written file
\* yields no critical error
C23_WrittenFileAccepted ==
    codec_pc = "validated"
        => /\ returned.critical_errors = <<>>
           /\ document # NotJson

\* ------------------------------------------------------------------------
\* Classification of the asset ids (differ.py), on SpecDiffer

\* the differences of the item begin with the marker of an asset of one system
HasMarker(item) == item.differences[1].field_name = SYSTEM_PRESENCE

\* C24: the Comparator classifies an asset id by key presence alone: it is matched
\* (compared field by field, no marker, no note) exactly when the id is a key of
\* both maps, source-only exactly when it is a key of the Zabbix map only,
\* target-only exactly when it is a key of the Topdesk map only, whatever the
\* records hold, an empty record included
C24_ClassifiedByKeys ==
    last_run = "process_comparison"
        => /\ stats.matched_assets
                  = Cardinality(DOMAIN zabbix_data \cap DOMAIN topdesk_data)
           /\ stats.zabbix_only = Cardinality(DOMAIN zabbix_data \ DOMAIN topdesk_data)
           /\ stats.topdesk_only = Cardinality(DOMAIN topdesk_data \ DOMAIN zabbix_data)
           /\ \A i \in DOMAIN all_differences :
                  /\ HasMarker(all_differences[i])
                         <=> all_differences[i].asset_id
                                 \notin DOMAIN zabbix_data \cap DOMAIN topdesk_data
                  /\ dif_files[all_differences[i].asset_id].note =
                         (IF all_differences[i].asset_id \notin DOMAIN topdesk_data
                          THEN ONLY_IN_ZABBIX
                          ELSE IF all_differences[i].asset_id \notin DOMAIN zabbix_data
                          THEN ONLY_IN_TOPDESK
                          ELSE NoNote)

\* ------------------------------------------------------------------------
\* Modify entries of a difference document (validator.py), on SpecDoc

\* the entries validate_dif_file hands to _validate_dif_entries: the list at the
\* top level or under 'entries'
DifEntriesOf(doc) ==
    IF doc.t # "json" THEN <<>>
    ELSE IF ~IsDict(doc.data) THEN ListOf(doc.data)
    ELSE IF "entries" \in DOMAIN doc.data THEN ListOf(doc.data.entries)
    ELSE <<>>

\* an entry with an asset_id of which the operation is modify and that lacks
\* old_value or new_value
ModifyLacksValues(entry) ==
    /\ IsDict(entry)
    /\ "asset_id" \in DOMAIN entry
    /\ "operation" \in DOMAIN entry
    /\ entry.operation = MODIFY
    /\ ("old_value" \notin DOMAIN entry \/ "new_value" \notin DOMAIN entry)

\* the result holds the message among its warnings
InWarnings(r, message) == \E m \in DOMAIN r.warnings : r.warnings[m] = message

\* C25: in validate_dif_file every entry whose operation is modify and that lacks
\* old_value or new_value adds a warning and no error (for every entry the loop
\* reaches: no entry before it is malformed); a document whose only defects are
\* such entries ends with the status PASSED_WITH_WARNINGS
C25_ModifyWithoutValuesWarns ==
    validated_by = "validate_dif_file"
        => /\ \A i \in DOMAIN DifEntriesOf(document) :
                  (/\ ModifyLacksValues(DifEntriesOf(document)[i])
                   /\ \A j \in 1..i : IsDict(DifEntriesOf(document)[j]))
                      => InWarnings(returned,
                                    "Entry " \o ToString(i - 1)
                                    \o ": Modify operation missing old/new values")
           /\ (/\ DifEntriesOf(document) # <<>>
               /\ \A i \in DOMAIN DifEntriesOf(document) :
                      ModifyLacksValues(DifEntriesOf(document)[i]))
                  => /\ returned.status = PASSED_WITH_WARNINGS
                     /\ returned.errors = <<>>
                     /\ returned.critical_errors = <<>>

\* ------------------------------------------------------------------------
\* The fields of one record (sorter.py): sort_asset_fields called on a record.
\* SpecFields.

\* the fields a record holds, at most
MaxAssetFields == 3

\* the keys of the records: names of the priority table, names that are not in
\* it, names in upper case, and a key that is not a string
FieldKeys ==
    {Str(<<"a", "s", "s", "e", "t", "_", "i", "d">>), Str(<<"i", "p", "_", "a", "d", "d", "r", "e", "s", "s">>), Str(<<"s", "t", "a", "t", "u", "s">>), Str(<<"l", "a", "s", "t", "_", "u", "p", "d", "a", "t", "e", "d">>),
     Str(<<"c", "r", "e", "a", "t", "e", "d", "_", "d", "a", "t", "e">>), Str(<<"n", "o", "t", "e", "s">>), Str(<<"N", "O", "T", "E", "S">>), Str(<<"n", "a", "m", "e">>), Str(<<"N", "A", "M", "E">>),
     Str(<<"a">>), Str(<<"z", "o", "n", "e">>), INT_KEY}

\* the records: at most MaxAssetFields keys in any order of insertion, no key
\* twice; the value of a field tells where the field was inserted
FieldRecords ==
    UNION {{[k \in 1..n |-> <<keys[k], Num(k)>>] :
               keys \in {ks \in [1..n -> FieldKeys] :
                            \A i, j \in 1..n : ks[i] = ks[j] => i = j}} :
           n \in 0..MaxAssetFields}

InitFields ==
    /\ CallsIdle
    /\ assets \in {<<asset>> : asset \in FieldRecords}
    /\ sort_input = assets
    /\ reverse = FALSE
    /\ sort_op = "none"
    /\ sort_result = None
    /\ order_valid = None
    /\ ResIdle
    /\ ValIdle
    /\ CfgIdle
    /\ CmpIdle
    /\ DifferIdle
    /\ CodecIdle
    /\ SorterIdle
    /\ DocIdle

\* the caller's record and what the call returned or raised, after
\* sort_asset_fields ran on a dict
SortedFields(out) ==
    /\ assets' = <<out.asset>>
    /\ sort_result' = IF out.raised THEN Raised("AttributeError") ELSE out.asset

\* SortingStrategy.sort_asset_fields(asset), on the record as the caller built it
\* or on the record an earlier call left; every record of the model is a dict, so
\* the early return for a value that is no dict is never taken
SortAssetFields ==
    /\ sort_op \in {"none", "sort_asset_fields"}
    /\ SortedFields(sort_asset_fields(assets[1]))
    /\ sort_op' = "sort_asset_fields"
    /\ UNCHANGED <<sort_input, reverse, order_valid>>
    /\ UNCHANGED <<resVars, valVars, callVars, csvVars, reportVars, cfgVars, cmpVars, inVars, runVars, codecVars,
                   sortVars, docVars>>

NextFields == SortAssetFields

SpecFields == InitFields /\ [][NextFields]_vars

\* every key of the record is a string
StringKeys(asset) == \A i \in DOMAIN asset : asset[i][1].t = "str"

\* the lower-cased name of the field at position i of the record
LowerName(asset, i) == Lower(asset[i][1].s)

\* the identifier fields and the audit and free-text fields of the priority table
IdentifierFields ==
    {<<"a", "s", "s", "e", "t", "_", "i", "d">>, <<"i", "p", "_", "a", "d", "d", "r", "e", "s", "s">>, <<"h", "o", "s", "t", "n", "a", "m", "e">>, <<"s", "e", "r", "i", "a", "l", "_", "n", "u", "m", "b", "e", "r">>, <<"m", "o", "d", "e", "l">>,
     <<"m", "a", "n", "u", "f", "a", "c", "t", "u", "r", "e", "r">>, <<"l", "o", "c", "a", "t", "i", "o", "n">>, <<"d", "e", "p", "a", "r", "t", "m", "e", "n", "t">>, <<"s", "t", "a", "t", "u", "s">>}
AuditFields == {<<"l", "a", "s", "t", "_", "u", "p", "d", "a", "t", "e", "d">>, <<"c", "r", "e", "a", "t", "e", "d", "_", "d", "a", "t", "e">>, <<"n", "o", "t", "e", "s">>}

\* the group of a field: identifier fields, then unlisted fields, then the audit
\* and free-text fields
FieldGroup(name) ==
    IF name \in IdentifierFields THEN 1 ELSE IF name \in AuditFields THEN 3 ELSE 2

\* C26: sort_asset_fields keeps exactly the same field/value pairs and orders the
\* fields by (priority, lower-cased name): the fields of the priority table in
\* ascending priority, the identifier fields (asset_id first) before every unlisted
\* field and last_updated, created_date, notes after every unlisted field, fields
\* of equal priority in alphabetical order; applying it to its result gives the
\* same order. Stated for records whose keys are strings (Dict[str, Any]).
C26_FieldsByPriority ==
    (sort_op = "sort_asset_fields" /\ StringKeys(sort_input[1]))
        => /\ sort_result = assets[1]
           /\ Len(assets[1]) = Len(sort_input[1])
           /\ {assets[1][i] : i \in DOMAIN assets[1]}
                  = {sort_input[1][i] : i \in DOMAIN sort_input[1]}
           /\ \A i, j \in DOMAIN assets[1] :
                  i < j =>
                      /\ FieldGroup(LowerName(assets[1], i))
                             <= FieldGroup(LowerName(assets[1], j))
                      /\ FieldPriority(LowerName(assets[1], i))
                             <= FieldPriority(LowerName(assets[1], j))
                      /\ LowerName(assets[1], j) = <<"a", "s", "s", "e", "t", "_", "i", "d">>
                             => LowerName(assets[1], i) = <<"a", "s", "s", "e", "t", "_", "i", "d">>
                      /\ FieldPriority(LowerName(assets[1], i))
                             = FieldPriority(LowerName(assets[1], j))
                             => ~StrLess(LowerName(assets[1], j), LowerName(assets[1], i))
           /\ sort_asset_fields(assets[1]).asset = assets[1]

\* C26 witness: notes, an unlisted name, an identifier and asset_id were inserted
\* in that order and are now in the reverse order
C26_Witness ==
    /\ sort_op = "sort_asset_fields"
    /\ sort_input[1] = <<<<Str(<<"n", "o", "t", "e", "s">>), Num(1)>>, <<Str(<<"z", "o", "n", "e">>), Num(2)>>,
                         <<Str(<<"a", "s", "s", "e", "t", "_", "i", "d">>), Num(3)>>>>
    /\ assets[1] = <<<<Str(<<"a", "s", "s", "e", "t", "_", "i", "d">>), Num(3)>>, <<Str(<<"z", "o", "n", "e">>), Num(2)>>,
                     <<Str(<<"n", "o", "t", "e", "s">>), Num(1)>>>>

\* ------------------------------------------------------------------------
\* Entries of difference and change-list documents (sorter.py): sort_dif_entries
\* and sort_apl_entries on entries that hold all their keys. SpecEntries.

\* the entries a list holds, at most
MaxSortEntries == 3

\* the ids of the entries: two ids in natural order, and an id that begins with
\* a number
EntryIds == {Str(<<"a", "s", "s", "e", "t", "2">>), Str(<<"a", "s", "s", "e", "t", "1", "0">>), Str(<<"1", "a">>)}

\* the entries of a difference document at position k of the list: the payload n
\* tells where the entry was in the list
DifEntryShapes(k) ==
    {<<<<ASSET_ID, id>>, <<OPERATION, op>>, <<FIELD, f>>, <<PAYLOAD, Num(k)>>>> :
        id \in EntryIds,
        op \in {Str(<<"a", "d", "d">>), MODIFY, Str(<<"d", "e", "l", "e", "t", "e">>), Str(<<"c", "r", "e", "a", "t", "e">>)},
        f \in {Str(<<"b">>), Str(<<"A">>)}}

\* the entries of a change-list document at position k of the list
AplEntryShapes(k) ==
    {<<<<TIMESTAMP, ts>>, <<ASSET_ID, id>>, <<SEQUENCE, Num(seq)>>, <<PAYLOAD, Num(k)>>>> :
        ts \in {Str(<<"2", "0", "2", "4", "-", "0", "1", "-", "0", "1">>), Str(<<"2", "0", "2", "4", "-", "0", "1", "-", "0", "2">>)},
        id \in EntryIds,
        seq \in {1, 2}}

\* the entries of a document of the kind at position k of the list
EntryShapesAt(kind, k) ==
    IF kind = "dif" THEN DifEntryShapes(k) ELSE AplEntryShapes(k)

RECURSIVE ListsOfLength(_, _)
\* the lists of n entries of one kind
ListsOfLength(kind, n) ==
    IF n = 0 THEN {<<>>}
    ELSE {Append(list, entry) : list \in ListsOfLength(kind, n - 1),
                                entry \in EntryShapesAt(kind, n)}

\* the lists of at most longest entries of one kind
SortEntryLists(longest) ==
    UNION {ListsOfLength("dif", n) \cup ListsOfLength("apl", n) : n \in 0..longest}

InitEntries ==
    /\ CallsIdle
    /\ assets \in SortEntryLists(MaxSortEntries)
    /\ sort_input = assets
    /\ reverse = FALSE
    /\ sort_op = "none"
    /\ sort_result = None
    /\ order_valid = None
    /\ ResIdle
    /\ ValIdle
    /\ CfgIdle
    /\ CmpIdle
    /\ DifferIdle
    /\ CodecIdle
    /\ SorterIdle
    /\ DocIdle

NextEntries == SortDifEntries \/ SortAplEntries

SpecEntries == InitEntries /\ [][NextEntries]_vars

\* add < modify < delete < any other operation
OperationRank(operation) ==
    IF operation = Str(<<"a", "d", "d">>) THEN 1
    ELSE IF operation = MODIFY THEN 2
    ELSE IF operation = Str(<<"d", "e", "l", "e", "t", "e">>) THEN 3
    ELSE 4

\* a is before b in the natural order of ids, and a and b are equal in it
NaturallyLess(a, b) == KeyOrder(natural_sort_key(a), natural_sort_key(b)) = "less"
NaturallyEqual(a, b) == KeyOrder(natural_sort_key(a), natural_sort_key(b)) = "equal"

\* the entry a may stand before the entry b in a difference document
DifInOrder(a, b) ==
    \/ NaturallyLess(DictGet(a, ASSET_ID, EMPTY), DictGet(b, ASSET_ID, EMPTY))
    \/ /\ NaturallyEqual(DictGet(a, ASSET_ID, EMPTY), DictGet(b, ASSET_ID, EMPTY))
       /\ \/ OperationRank(DictGet(a, OPERATION, MODIFY))
                 < OperationRank(DictGet(b, OPERATION, MODIFY))
          \/ /\ OperationRank(DictGet(a, OPERATION, MODIFY))
                    = OperationRank(DictGet(b, OPERATION, MODIFY))
             /\ \/ StrLess(Lower(DictGet(a, FIELD, EMPTY).s), Lower(DictGet(b, FIELD, EMPTY).s))
                \/ /\ Lower(DictGet(a, FIELD, EMPTY).s) = Lower(DictGet(b, FIELD, EMPTY).s)
                   /\ PayloadOf(a) < PayloadOf(b)

\* the entry a may stand before the entry b in a change-list document
AplInOrder(a, b) ==
    \/ StrLess(DictGet(a, TIMESTAMP, NO_TIMESTAMP).s, DictGet(b, TIMESTAMP, NO_TIMESTAMP).s)
    \/ /\ DictGet(a, TIMESTAMP, NO_TIMESTAMP) = DictGet(b, TIMESTAMP, NO_TIMESTAMP)
       /\ \/ NaturallyLess(DictGet(a, ASSET_ID, EMPTY), DictGet(b, ASSET_ID, EMPTY))
          \/ /\ NaturallyEqual(DictGet(a, ASSET_ID, EMPTY), DictGet(b, ASSET_ID, EMPTY))
             /\ \/ DictGet(a, SEQUENCE, Num(NoSequence)).n
                       < DictGet(b, SEQUENCE, Num(NoSequence)).n
                \/ /\ DictGet(a, SEQUENCE, Num(NoSequence)).n
                          = DictGet(b, SEQUENCE, Num(NoSequence)).n
                   /\ PayloadOf(a) < PayloadOf(b)

\* the list returned holds the entries of the list given, each once
SameEntries(given, sorted_list) ==
    /\ Len(sorted_list) = Len(given)
    /\ \A k \in DOMAIN given : \E p \in DOMAIN sorted_list : sorted_list[p] = given[k]

\* C27: sort_dif_entries orders the entries by the natural order of asset_id,
\* then by operation with add < modify < delete < any other operation, then by
\* the lower-cased field name; sort_apl_entries orders the entries by timestamp,
\* then by the natural order of asset_id, then by sequence number; both return
\* the entries they were given and keep the order of entries that tie on all
\* three keys
C27_EntriesInKeyOrder ==
    /\ sort_op = "sort_dif_entries"
           => /\ sort_result.t = "list"
              /\ SameEntries(sort_input, sort_result.items)
              /\ \A i, j \in DOMAIN sort_result.items :
                     i < j => DifInOrder(sort_result.items[i], sort_result.items[j])
    /\ sort_op = "sort_apl_entries"
           => /\ sort_result.t = "list"
              /\ SameEntries(sort_input, sort_result.items)
              /\ \A i, j \in DOMAIN sort_result.items :
                     i < j => AplInOrder(sort_result.items[i], sort_result.items[j])

\* ------------------------------------------------------------------------
\* Export of the written documents (differ_utils.py): process_comparison writes
\* the files of one asset, export_to_csv reads them back. SpecExport.

\* the values of the fields: two words and the word null
ExportValues == {Str(<<"a">>), Str(<<"b">>), NULL}

\* the records of the asset
ExportRecords == UNION {[fs -> ExportValues] : fs \in SUBSET Fields}

\* the data maps of one system: the asset with a record, or no asset
ExportMaps == UNION {[present -> ExportRecords] : present \in SUBSET {"A1"}}

InitExport ==
    /\ NewAgent
    /\ calls = <<>>
    /\ csv_rows = None
    /\ report = None
    /\ zabbix_data \in ExportMaps
    /\ topdesk_data \in ExportMaps
    /\ ResIdle
    /\ ValIdle
    /\ CmpIdle
    /\ CodecIdle
    /\ SorterIdle
    /\ ListIdle
    /\ DocIdle

\* the kind export_to_csv derives from the values of a parsed difference
DerivedType(diff) ==
    IF diff.zabbix_value = <<"n", "u", "l", "l">> THEN "missing_in_zabbix"
    ELSE IF diff.topdesk_value = <<"n", "u", "l", "l">> THEN "missing_in_topdesk"
    ELSE "value_mismatch"

\* the rows of the differences of one parsed file; data.get('note', '') is the
\* note the parser left, None without one
RowsOf(data) ==
    [i \in DOMAIN data.differences |->
        [asset_id |-> data.asset_id,
         field_name |-> data.differences[i].field_name,
         zabbix_value |-> data.differences[i].zabbix_value,
         topdesk_value |-> data.differences[i].topdesk_value,
         difference_type |-> DerivedType(data.differences[i]),
         note |-> data.note]]

RECURSIVE ExportRows(_, _, _)
\* the loop of export_to_csv over dif_files: the rows written, the header aside;
\* the text of a file is what generate_dif_file wrote for its document
ExportRows(paths, files, timestamp) ==
    IF paths = <<>> THEN <<>>
    ELSE RowsOf(parse_dif_file(DifLines(files[Head(paths)], timestamp)))
         \o ExportRows(Tail(paths), files, timestamp)

\* DifferenceExporter.export_to_csv(dif_files, csv_filepath) on the files the last
\* process_comparison returned
ExportToCsv ==
    /\ last_run = "process_comparison"
    /\ \E timestamp \in Timestamps :
        csv_rows' = List(ExportRows(generated_files, dif_files, timestamp))
    /\ UNCHANGED <<listVars, docVars, codecVars, sortVars, resVars, valVars, callVars, reportVars, cfgVars,
                   cmpVars, inVars, runVars>>

\* process_comparison, before anything was exported
CompareForExport ==
    /\ csv_rows = None
    /\ ProcessComparison

NextExport == CompareForExport \/ ExportToCsv

SpecExport == InitExport /\ [][NextExport]_vars

RECURSIVE EmittedFields(_)
\* the differences of fields the Comparator emitted in its last run, in the order
\* of the files: the markers of the assets of one system are no field differences
EmittedFields(items) ==
    IF items = <<>> THEN <<>>
    ELSE SelectSeq(Head(items).differences, LAMBDA diff : diff.field_name # SYSTEM_PRESENCE)
         \o EmittedFields(Tail(items))

\* C28: the kind of a difference is reconstructible from the written document:
\* for every difference of a field the Comparator emits, the kind export_to_csv
\* derives from the stored Zabbix and Topdesk values is the kind the Comparator
\* gave it, for all field values, the string "null" included
C28_KindReconstructible ==
    csv_rows # None
        => /\ Len(csv_rows.items) = Len(EmittedFields(all_differences))
           /\ \A i \in DOMAIN csv_rows.items :
                  csv_rows.items[i].difference_type
                      = EmittedFields(all_differences)[i].difference_type

\* ------------------------------------------------------------------------
\* The history of the validator (validator.py), on SpecDoc

\* C29: every result a validation method returns has its end_time set and has
\* been appended once to validation_history, on every path, a missing file
\* included: every call makes validation_history one longer, by the result it
\* returns, so the length of validation_history is the number of calls made
C29_EveryResultRecorded ==
    [][/\ returned'.end_time = "set"
       /\ validation_history' = Append(validation_history, returned')]_vars

\* ------------------------------------------------------------------------
\* The report of the validator (validator.py): generate_validation_report over
\* the results the validation methods recorded. SpecReport.

\* the warnings that call for no review, at most
MaxQuietWarnings == 10

RECURSIVE SumOver(_, _)
\* sum(len(v.<list>) for v in self.validation_history)
SumOver(history, list_name) ==
    IF history = <<>> THEN 0
    ELSE Len(Head(history)[list_name]) + SumOver(Tail(history), list_name)

\* the body of the loop of _generate_recommendations for one validation
PatternRecommendations(validation) ==
    (IF /\ "sync_errors" \in DOMAIN validation.metadata
        /\ validation.metadata["sync_errors"] > 0
     THEN <<"Investigate field mapping discrepancies">> ELSE <<>>)
    \o (IF /\ "duplicates" \in DOMAIN validation.metadata
           /\ validation.metadata["duplicates"] > 0
        THEN <<"Resolve duplicate asset IDs before sync">> ELSE <<>>)

RECURSIVE PatternLoop(_)
\* the loop of _generate_recommendations over validation_history
PatternLoop(history) ==
    IF history = <<>> THEN <<>>
    ELSE PatternRecommendations(Head(history)) \o PatternLoop(Tail(history))

\* the recommendations before the last test of _generate_recommendations
Recommended(history) ==
    (IF SumOver(history, "errors") > 0
     THEN <<"Address critical errors before proceeding with sync">> ELSE <<>>)
    \o (IF SumOver(history, "warnings") > MaxQuietWarnings
        THEN <<"Review warnings to improve data quality">> ELSE <<>>)
    \o PatternLoop(history)

\* MergerValidator._generate_recommendations()
generate_recommendations(history) ==
    IF Recommended(history) = <<>> THEN <<"All validations passed successfully">>
    ELSE Recommended(history)

\* the number of results of the history with the status
CountStatus(history, status) ==
    Cardinality({i \in DOMAIN history : history[i].status = status})

\* MergerValidator.generate_validation_report(): the figures and the
\* recommendations of the report (the reports of the single results are left out)
generate_validation_report(history) ==
    [total_validations |-> Len(history),
     passed |-> CountStatus(history, PASSED),
     passed_with_warnings |-> CountStatus(history, PASSED_WITH_WARNINGS),
     failed |-> CountStatus(history, FAILED),
     recommendations |-> generate_recommendations(history)]

InitReport ==
    /\ InitDoc
    /\ report = None

\* a validation method, called before the report is made
ValidateForReport ==
    /\ report = None
    /\ NextDoc

\* MergerValidator.generate_validation_report()
GenerateValidationReport ==
    /\ report = None
    /\ report' = generate_validation_report(validation_history)
    /\ UNCHANGED <<listVars, docVars, codecVars, sortVars, resVars, valVars, callVars, csvVars,
                   cfgVars, cmpVars, inVars, runVars>>

NextReport == ValidateForReport \/ GenerateValidationReport

SpecReport == InitReport /\ [][NextReport]_vars

\* the report holds the recommendation
Recommends(text) ==
    \E i \in DOMAIN report.recommendations : report.recommendations[i] = text

\* C30: generate_validation_report gives the recommendation "All validations
\* passed successfully" only when no result of validation_history has the status
\* FAILED; whenever a recorded validation is FAILED, through an error or through
\* a critical error, the recommendations ask to address the errors
C30_FailedIsNeverPassed ==
    report # None
        => /\ Recommends("All validations passed successfully")
                  => \A i \in DOMAIN validation_history :
                         validation_history[i].status # FAILED
           /\ (\E i \in DOMAIN validation_history : validation_history[i].status = FAILED)
                  => Recommends("Address critical errors before proceeding with sync")

====
